---- MODULE Spec2Model ----
(***************************************************************************)
(* PDCP transmitter (pdcp_entity_tx) and receiver (pdcp_entity_rx) entity  *)
(* state machines of srsRAN: COUNT assignment, the max-count one-shot      *)
(* notifications, the TX window with discard timers, the RX reordering     *)
(* window with the t-Reordering timer, and re-establishment.               *)
(*                                                                         *)
(* The 32-bit COUNT is scaled to CountBits = SnBits + HfnBits bits; all    *)
(* uint32_t arithmetic of the source is done modulo 2^CountBits.           *)
(***************************************************************************)
EXTENDS Integers, Naturals, Sequences, FiniteSets, TLC

(***************************************************************************)
(* Bounds of the model.                                                    *)
(***************************************************************************)
\* Width of the sequence number (12 or 18 in the program).
SnBits == 3
\* Width of the hyper frame number (32 - sn_size in the program).
HfnBits == 2
\* Largest hard max-count threshold a configuration of the model draws.
MaxHard == 5
\* Saturation value of the counters of control-plane notifications.
MaxSignals == 2

RECURSIVE Pow2(_)
Pow2(n) == IF n = 0 THEN 1 ELSE 2 * Pow2(n - 1)

\* pdcp_sn_cardinality(sn_size)
SnCard == Pow2(SnBits)
HfnCard == Pow2(HfnBits)
\* number of values of a uint32_t COUNT
CountCard == SnCard * HfnCard
\* pdcp_window_size(sn_size) = 2^(sn_size - 1)
window_size == Pow2(SnBits - 1)

Counts == 0..(CountCard - 1)
Slots == 0..(window_size - 1)

\* uint32_t wrap-around
U32(x) == x % CountCard

\* SN(), HFN() and COUNT() of pdcp_entity_tx_rx_base
SN(count) == count % SnCard
HFN(count) == count \div SnCard
COUNT(hfn, sn) == U32((hfn % HfnCard) * SnCard + sn)

(***************************************************************************)
(* sdu_window: a fixed-capacity store of window_size slots indexed by      *)
(* COUNT mod window_size.  A slot holds the COUNT stored in its entry      *)
(* (sdu_info.count) or NoEntry.                                            *)
(***************************************************************************)
NoEntry == -1
EmptyWindow == [i \in Slots |-> NoEntry]
has_sn(win, count) == win[count % window_size] # NoEntry
stored_count(win, count) == win[count % window_size]
add_sn(win, count) == [win EXCEPT ![count % window_size] = count]
remove_sn(win, count) == [win EXCEPT ![count % window_size] = NoEntry]
WindowCounts(win) == {win[i] : i \in {j \in Slots : win[j] # NoEntry}}

(***************************************************************************)
(* Events handed to the lower layer (on_new_pdu, on_discard_pdu), to the   *)
(* upper layer (on_new_sdu) and to the control plane                       *)
(* (on_max_count_reached, on_protocol_failure).                            *)
(***************************************************************************)
EvNewPdu(count, is_retx) == [ev |-> "on_new_pdu", n |-> count, is_retx |-> is_retx]
EvCtrlPdu == [ev |-> "on_new_pdu_ctrl", n |-> 0, is_retx |-> FALSE]
EvDiscardPdu(sn) == [ev |-> "on_discard_pdu", n |-> sn, is_retx |-> FALSE]
EvMaxCountReached == [ev |-> "on_max_count_reached", n |-> 0, is_retx |-> FALSE]
EvProtocolFailure == [ev |-> "on_protocol_failure", n |-> 0, is_retx |-> FALSE]
EvNewSdu(count) == [ev |-> "on_new_sdu", n |-> count, is_retx |-> FALSE]
EvIntegrityFailed(n) == [ev |-> "metrics_add_integrity_failed_pdus", n |-> n, is_retx |-> FALSE]

Emitted(out, name) == {i \in 1..Len(out) : out[i].ev = name}
SatInc(n) == IF n < MaxSignals THEN n + 1 ELSE n


(***************************************************************************)
(* State.                                                                  *)
(***************************************************************************)
VARIABLES
    tx_cfg,                 \* pdcp_tx_config: rb_type, rlc_mode, discard_timer, custom.*
    tx_st,                  \* pdcp_tx_state st: tx_next, tx_next_ack, tx_trans
    tx_window,              \* tx_window
    tx_max_count_notified,  \* pdcp_entity_tx::max_count_notified
    tx_max_count_overflow,  \* pdcp_entity_tx::max_count_overflow
    tx_assigned,            \* COUNTs given to new PDUs since the last reset()
    tx_timers,              \* COUNTs whose discard timer (sdu_info.discard_timer) is running
    tx_n_max_count_reached, \* upper_cn.on_max_count_reached() calls so far (saturating)
    tx_n_count_failure      \* upper_cn.on_protocol_failure() calls for COUNT exhaustion (saturating)

tx_vars == <<tx_cfg, tx_st, tx_window, tx_max_count_notified, tx_max_count_overflow,
             tx_assigned, tx_timers, tx_n_max_count_reached, tx_n_count_failure>>

\* pdcp_entity_tx_rx_base: bearer kind
is_srb(cfg) == cfg.rb_type = "srb"
is_drb(cfg) == cfg.rb_type = "drb"
is_um(cfg) == cfg.rlc_mode = "um"
is_am(cfg) == cfg.rlc_mode = "am"

\* The bearers of the model: SRB (over RLC AM), UM DRB, AM DRB.
Bearers == {[rb_type |-> "srb", rlc_mode |-> "am"],
            [rb_type |-> "drb", rlc_mode |-> "um"],
            [rb_type |-> "drb", rlc_mode |-> "am"]}

\* cfg.max_count of the model's configurations
NotifyLow == 2
HardLow == 3
MaxCountCfgs == {[notify |-> NotifyLow, hard |-> HardLow],
                 [notify |-> NotifyLow, hard |-> MaxHard],
                 [notify |-> MaxHard - 1, hard |-> MaxHard]}

\* cfg.custom.rlc_sdu_queue of the model's configurations
QueueLow == 2
RlcSduQueues == {QueueLow, CountCard}

TxConfigs == {[rb_type |-> b.rb_type, rlc_mode |-> b.rlc_mode, discard_timer |-> d,
               rlc_sdu_queue |-> q, notify |-> mc.notify, hard |-> mc.hard,
               status_report_required |-> sr] :
                 b \in Bearers, d \in {"none", "finite", "infinity"},
                 q \in RlcSduQueues, mc \in MaxCountCfgs, sr \in BOOLEAN}

discard_timer_has_value == tx_cfg.discard_timer # "none"

(***************************************************************************)
(* The transmitter as a value: st, the window, the one-shot flags, the     *)
(* notifier calls made so far by the running operation and the branch      *)
(* taken.                                                                  *)
(***************************************************************************)
TxNow == [tx_next |-> tx_st.tx_next, tx_next_ack |-> tx_st.tx_next_ack,
          tx_trans |-> tx_st.tx_trans, win |-> tx_window,
          max_count_notified |-> tx_max_count_notified,
          max_count_overflow |-> tx_max_count_overflow,
          out |-> <<>>, res |-> "done"]

Emit(m, e) == [m EXCEPT !.out = Append(@, e)]
Result(m, r) == [m EXCEPT !.res = r]

\* Variant of ClampTxTrans that leaves tx_trans behind tx_next_ack
ClampTxTrans_Never(m) == m

\* discard_pdu / stop_discard_timer: "Update TX_TRANS if it falls out of the tx_window"
ClampTxTrans(m) == IF m.tx_trans < m.tx_next_ack THEN [m EXCEPT !.tx_trans = m.tx_next_ack] ELSE m

\* Variant of AdvanceTxNextAck that moves tx_next_ack by one COUNT at most
AdvanceTxNextAck_ByOne(m) ==
    IF m.tx_next_ack < m.tx_next /\ ~has_sn(m.win, m.tx_next_ack)
    THEN [m EXCEPT !.tx_next_ack = U32(@ + 1)]
    ELSE m

\* discard_pdu: "Update TX_NEXT_ACK to oldest element in tx_window"
RECURSIVE AdvanceTxNextAck(_)
AdvanceTxNextAck(m) ==
    IF m.tx_next_ack < m.tx_next /\ ~has_sn(m.win, m.tx_next_ack)
    THEN AdvanceTxNextAck([m EXCEPT !.tx_next_ack = U32(@ + 1)])
    ELSE m

\* pdcp_entity_tx::discard_pdu
discard_pdu(m, count) ==
    IF ~discard_timer_has_value THEN m
    ELSE IF count < m.tx_next_ack \/ count >= m.tx_next THEN m
    ELSE IF ~has_sn(m.win, count) THEN m
    ELSE ClampTxTrans(AdvanceTxNextAck(
             [Emit(m, EvDiscardPdu(SN(count))) EXCEPT !.win = remove_sn(m.win, count)]))

\* Variant of the stop_discard_timer loop that moves tx_next_ack and leaves the entries
RECURSIVE StopTimersLoop_KeepEntries(_, _)
StopTimersLoop_KeepEntries(m, highest_count) ==
    IF m.tx_next_ack <= highest_count
    THEN StopTimersLoop_KeepEntries([m EXCEPT !.tx_next_ack = U32(@ + 1)], highest_count)
    ELSE m

\* stop_discard_timer: the loop "while (st.tx_next_ack <= highest_count)"
RECURSIVE StopTimersLoop(_, _)
StopTimersLoop(m, highest_count) ==
    IF m.tx_next_ack <= highest_count
    THEN StopTimersLoop([m EXCEPT
             !.win = IF has_sn(m.win, m.tx_next_ack) THEN remove_sn(m.win, m.tx_next_ack) ELSE @,
             !.tx_next_ack = U32(@ + 1)], highest_count)
    ELSE m

\* pdcp_entity_tx::stop_discard_timer
stop_discard_timer(m, highest_count) ==
    IF ~discard_timer_has_value THEN m
    ELSE IF highest_count < m.tx_next_ack \/ highest_count >= m.tx_next THEN m
    ELSE ClampTxTrans(StopTimersLoop(m, highest_count))

\* Variant of notification_count_estimation that always takes the HFN of the lower edge
notification_count_estimation_SameHfn(m, notification_sn) ==
    COUNT(HFN(IF discard_timer_has_value THEN m.tx_next_ack ELSE m.tx_trans), notification_sn)

\* pdcp_entity_tx::notification_count_estimation
notification_count_estimation(m, notification_sn) ==
    LET tx_lower == IF discard_timer_has_value THEN m.tx_next_ack ELSE m.tx_trans
        notification_hfn ==
            IF notification_sn < SN(tx_lower) - window_size THEN HFN(tx_lower) + 1
            ELSE IF notification_sn >= SN(tx_lower) + window_size THEN HFN(tx_lower) - 1
            ELSE HFN(tx_lower)
    IN  COUNT(notification_hfn, notification_sn)

(***************************************************************************)
(* handle_sdu                                                              *)
(***************************************************************************)
\* handle_sdu: the three drop checks made before the SDU is counted
InvalidTxState(m) == m.tx_trans > m.tx_next
\* Variant of TxWindowFull that compares with window_size instead of window_size - 1
TxWindowFull_OffByOne(m) == U32(m.tx_next - m.tx_trans) >= window_size
RlcQueueFull(m) == U32(m.tx_next - m.tx_trans) >= tx_cfg.rlc_sdu_queue
TxWindowFull(m) == U32(m.tx_next - m.tx_trans) >= window_size - 1

\* handle_sdu: "if (st.tx_next >= cfg.custom.max_count.hard)"
TxHardMaxCountReached(m) == m.tx_next >= tx_cfg.hard
\* handle_sdu: "if (st.tx_next >= cfg.custom.max_count.notify)"
TxNotifyMaxCountReached(m) == m.tx_next >= tx_cfg.notify

\* Variant of SignalTxOverflow that does not latch max_count_overflow
SignalTxOverflow_NoLatch(m) == IF ~m.max_count_overflow THEN Emit(m, EvProtocolFailure) ELSE m

\* handle_sdu: the one-shot on_protocol_failure() of the hard limit
SignalTxOverflow(m) ==
    IF ~m.max_count_overflow
    THEN [Emit(m, EvProtocolFailure) EXCEPT !.max_count_overflow = TRUE]
    ELSE m

\* Variant of SignalTxNotify that does not latch max_count_notified
SignalTxNotify_NoLatch(m) ==
    IF m.tx_next >= tx_cfg.notify /\ ~m.max_count_notified THEN Emit(m, EvMaxCountReached) ELSE m

\* handle_sdu: the one-shot on_max_count_reached() of the notify limit
SignalTxNotify(m) ==
    IF TxNotifyMaxCountReached(m) /\ ~m.max_count_notified
    THEN [Emit(m, EvMaxCountReached) EXCEPT !.max_count_notified = TRUE]
    ELSE m

\* handle_sdu: "Create a discard timer and put into tx_window"
InsertTxWindow(m) ==
    IF discard_timer_has_value
    THEN LET m1 == IF has_sn(m.win, m.tx_next)
                   THEN discard_pdu(m, stored_count(m.win, m.tx_next))
                   ELSE m
         IN  [m1 EXCEPT !.win = add_sn(m1.win, m.tx_next)]
    ELSE m

\* Variant of SubmitNewPdu that forgets "st.tx_next++"
SubmitNewPdu_NoIncrement(m) == Emit(m, EvNewPdu(m.tx_next, FALSE))

\* handle_sdu: write_data_pdu_to_lower_layers(st.tx_next, ..., false); st.tx_next++
SubmitNewPdu(m) ==
    [Emit(m, EvNewPdu(m.tx_next, FALSE)) EXCEPT !.tx_next = U32(@ + 1)]

SduFailures == {"none", "copy", "header", "security"}

\* Variant of handle_sdu that stores the SDU in the window before it runs the security
\* pipeline
handle_sdu_InsertFirst(m, fail) ==
    IF InvalidTxState(m) THEN Result(m, "drop_invalid_state")
    ELSE IF RlcQueueFull(m) THEN Result(m, "drop_rlc_queue")
    ELSE IF TxWindowFull(m) THEN Result(m, "drop_window")
    ELSE IF TxHardMaxCountReached(m) THEN Result(SignalTxOverflow(m), "drop_max_count")
    ELSE LET m1 == SignalTxNotify(m) IN
         IF fail = "copy" /\ discard_timer_has_value /\ is_am(tx_cfg)
         THEN Result(Emit(m1, EvProtocolFailure), "fail_copy")
         ELSE IF fail = "header" THEN Result(Emit(m1, EvProtocolFailure), "fail_header")
         ELSE IF fail = "security"
              THEN Result(Emit(InsertTxWindow(m1), EvProtocolFailure), "fail_security")
         ELSE Result(SubmitNewPdu(InsertTxWindow(m1)), "ok")

\* pdcp_entity_tx::handle_sdu; fail names the step of the pipeline that fails for this SDU
handle_sdu(m, fail) ==
    IF InvalidTxState(m) THEN Result(m, "drop_invalid_state")
    ELSE IF RlcQueueFull(m) THEN Result(m, "drop_rlc_queue")
    ELSE IF TxWindowFull(m) THEN Result(m, "drop_window")
    ELSE IF TxHardMaxCountReached(m) THEN Result(SignalTxOverflow(m), "drop_max_count")
    ELSE LET m1 == SignalTxNotify(m) IN
         IF fail = "copy" /\ discard_timer_has_value /\ is_am(tx_cfg)
         THEN Result(Emit(m1, EvProtocolFailure), "fail_copy")
         ELSE IF fail = "header" THEN Result(Emit(m1, EvProtocolFailure), "fail_header")
         ELSE IF fail = "security" THEN Result(Emit(m1, EvProtocolFailure), "fail_security")
         ELSE Result(SubmitNewPdu(InsertTxWindow(m1)), "ok")


(***************************************************************************)
(* Retransmission, re-establishment, data recovery                         *)
(***************************************************************************)
\* Variant of RetransmitLoop that goes on with the next COUNT after a failure
RECURSIVE RetransmitLoop_SkipFailed(_, _, _)
RetransmitLoop_SkipFailed(m, count, fail_count) ==
    IF count < m.tx_next
    THEN IF has_sn(m.win, count)
         THEN RetransmitLoop_SkipFailed(
                  IF stored_count(m.win, count) = fail_count
                  THEN Emit(m, EvProtocolFailure)
                  ELSE Emit(m, EvNewPdu(stored_count(m.win, count), TRUE)),
                  count + 1, fail_count)
         ELSE RetransmitLoop_SkipFailed(m, count + 1, fail_count)
    ELSE m

\* retransmit_all_pdus: the loop over [tx_next_ack, tx_next); fail_count is the COUNT at
\* which the copy, the header write or the security pipeline fails (NoEntry: none does)
RECURSIVE RetransmitLoop(_, _, _)
RetransmitLoop(m, count, fail_count) ==
    IF count < m.tx_next
    THEN IF has_sn(m.win, count)
         THEN IF stored_count(m.win, count) = fail_count
              THEN Result(Emit(m, EvProtocolFailure), "fail_retx")
              ELSE RetransmitLoop(Emit(m, EvNewPdu(stored_count(m.win, count), TRUE)),
                                  count + 1, fail_count)
         ELSE RetransmitLoop(m, count + 1, fail_count)
    ELSE m

\* pdcp_entity_tx::retransmit_all_pdus
retransmit_all_pdus(m, fail_count) ==
    IF ~discard_timer_has_value THEN m
    ELSE IF ~is_am(tx_cfg) THEN m
    ELSE LET m1 == [m EXCEPT !.tx_trans = m.tx_next_ack]
         IN  RetransmitLoop(m1, m1.tx_next_ack, fail_count)

\* Variant of reset that leaves the window as it is
reset_KeepWindow(m) == [m EXCEPT !.tx_next = 0, !.tx_next_ack = 0, !.tx_trans = 0]

\* pdcp_entity_tx::reset
reset(m) == [m EXCEPT !.tx_next = 0, !.tx_next_ack = 0, !.tx_trans = 0, !.win = EmptyWindow]

\* pdcp_entity_tx::reestablish
tx_reestablish(m, fail_count) ==
    LET m1 == IF is_srb(tx_cfg) \/ is_um(tx_cfg) THEN reset(m) ELSE m
    IN  IF is_am(tx_cfg) THEN retransmit_all_pdus(m1, fail_count) ELSE m1

\* pdcp_entity_tx::send_status_report
send_status_report(m) == IF tx_cfg.status_report_required THEN Emit(m, EvCtrlPdu) ELSE m

\* Variant of data_recovery that retransmits before it sends the status report
data_recovery_RetransmitFirst(m, fail_count) ==
    LET m1 == retransmit_all_pdus(m, fail_count)
    IN  IF tx_cfg.status_report_required THEN send_status_report(m1) ELSE m1

\* pdcp_entity_tx::data_recovery
data_recovery(m, fail_count) ==
    LET m1 == IF tx_cfg.status_report_required THEN send_status_report(m) ELSE m
    IN  retransmit_all_pdus(m1, fail_count)

(***************************************************************************)
(* Notifications of the lower layer                                        *)
(***************************************************************************)
\* Variant of handle_transmit_notification without the check "notif_count < st.tx_trans"
handle_transmit_notification_NoLowCheck(m, notif_sn) ==
    IF notif_sn >= SnCard THEN Result(m, "invalid_sn")
    ELSE LET notif_count == notification_count_estimation(m, notif_sn) IN
         IF notif_count >= m.tx_next THEN Result(m, "too_high")
         ELSE LET m1 == [m EXCEPT !.tx_trans = U32(notif_count + 1)] IN
              IF ~discard_timer_has_value THEN m1
              ELSE IF is_um(tx_cfg) THEN stop_discard_timer(m1, notif_count)
              ELSE m1

\* Variant of handle_transmit_notification without the check "notif_count >= st.tx_next"
handle_transmit_notification_NoHighCheck(m, notif_sn) ==
    IF notif_sn >= SnCard THEN Result(m, "invalid_sn")
    ELSE LET notif_count == notification_count_estimation(m, notif_sn) IN
         IF notif_count < m.tx_trans THEN Result(m, "too_low")
         ELSE LET m1 == [m EXCEPT !.tx_trans = U32(notif_count + 1)] IN
              IF ~discard_timer_has_value THEN m1
              ELSE IF is_um(tx_cfg) THEN stop_discard_timer(m1, notif_count)
              ELSE m1

\* pdcp_entity_tx::handle_transmit_notification
handle_transmit_notification(m, notif_sn) ==
    IF notif_sn >= SnCard THEN Result(m, "invalid_sn")
    ELSE LET notif_count == notification_count_estimation(m, notif_sn) IN
         IF notif_count < m.tx_trans THEN Result(m, "too_low")
         ELSE IF notif_count >= m.tx_next THEN Result(m, "too_high")
         ELSE LET m1 == [m EXCEPT !.tx_trans = U32(notif_count + 1)] IN
              IF ~discard_timer_has_value THEN m1
              ELSE IF is_um(tx_cfg) THEN stop_discard_timer(m1, notif_count)
              ELSE m1

\* pdcp_entity_tx::handle_delivery_notification
handle_delivery_notification(m, notif_sn) ==
    IF notif_sn >= SnCard THEN Result(m, "invalid_sn")
    ELSE LET notif_count == notification_count_estimation(m, notif_sn) IN
         IF notif_count >= m.tx_next THEN Result(m, "too_high")
         ELSE IF ~discard_timer_has_value THEN m
         ELSE IF is_am(tx_cfg) THEN stop_discard_timer(m, notif_count)
         ELSE Result(m, "ignored_um")

(***************************************************************************)
(* Status report                                                           *)
(***************************************************************************)
\* handle_status_report: "Discard any SDU with COUNT < FMC"
RECURSIVE DiscardBelowFmc(_, _, _)
DiscardBelowFmc(m, count, fmc) ==
    IF count < fmc THEN DiscardBelowFmc(discard_pdu(m, count), count + 1, fmc) ELSE m

\* Variant of EvaluateBitmap that takes the first bit for the COUNT equal to FMC
RECURSIVE EvaluateBitmap_FromFmc(_, _, _)
EvaluateBitmap_FromFmc(m, fmc, bitmap) ==
    IF bitmap = <<>> THEN m
    ELSE EvaluateBitmap_FromFmc(IF Head(bitmap) = 1 THEN discard_pdu(m, fmc) ELSE m,
                                U32(fmc + 1), Tail(bitmap))

\* handle_status_report: "Evaluate bitmap"
RECURSIVE EvaluateBitmap(_, _, _)
EvaluateBitmap(m, fmc, bitmap) ==
    IF bitmap = <<>> THEN m
    ELSE LET fmc1 == U32(fmc + 1)
         IN  EvaluateBitmap(IF Head(bitmap) = 1 THEN discard_pdu(m, fmc1) ELSE m,
                            fmc1, Tail(bitmap))

\* pdcp_entity_tx::handle_status_report; header_ok: D/C, CPT and reserved bits are as expected
handle_status_report(m, header_ok, fmc, bitmap) ==
    IF ~header_ok THEN Result(m, "invalid_header")
    ELSE EvaluateBitmap(DiscardBelowFmc(m, m.tx_next_ack, fmc), fmc, bitmap)


(***************************************************************************)
(* Receiver state.                                                         *)
(***************************************************************************)
VARIABLES
    rx_cfg,                 \* pdcp_rx_config: rb_type, rlc_mode, t_reordering, max_count, integrity
    rx_st,                  \* pdcp_rx_state st: rx_next, rx_deliv, rx_reord
    rx_window,              \* rx_window
    rx_timer_running,       \* reordering_timer.is_running()
    rx_max_count_notified,  \* pdcp_entity_rx::max_count_notified
    rx_max_count_overflow,  \* pdcp_entity_rx::max_count_overflow
    rx_last_deliv,          \* highest COUNT handed to upper_dn.on_new_sdu since the last reset
    rx_n_max_count_reached, \* upper_cn.on_max_count_reached() calls so far (saturating)
    rx_n_count_failure      \* upper_cn.on_protocol_failure() calls so far (saturating)

rx_vars == <<rx_cfg, rx_st, rx_window, rx_timer_running, rx_max_count_notified,
             rx_max_count_overflow, rx_last_deliv,
             rx_n_max_count_reached, rx_n_count_failure>>

\* The last COUNT resolution worked out: the reference COUNT, the COUNT whose SN was
\* resolved, and what the receiver and the transmitter made of that SN
VARIABLES count_res

vars == <<tx_vars, rx_vars, count_res>>

RxConfigs == {[rb_type |-> b.rb_type, rlc_mode |-> b.rlc_mode, t_reordering |-> t,
               notify |-> mc.notify, hard |-> mc.hard, integrity |-> i] :
                 b \in Bearers, t \in {"ms0", "finite", "infinity"},
                 mc \in MaxCountCfgs, i \in BOOLEAN}

RxNow == [rx_next |-> rx_st.rx_next, rx_deliv |-> rx_st.rx_deliv, rx_reord |-> rx_st.rx_reord,
          win |-> rx_window, timer_running |-> rx_timer_running,
          max_count_notified |-> rx_max_count_notified,
          max_count_overflow |-> rx_max_count_overflow,
          out |-> <<>>, res |-> "done"]

\* handle_data_pdu: "Calculate RCVD_COUNT"
rcvd_count_of(r, sn) ==
    LET rcvd_hfn ==
            IF sn < SN(r.rx_deliv) - window_size THEN HFN(r.rx_deliv) + 1
            ELSE IF sn >= SN(r.rx_deliv) + window_size THEN HFN(r.rx_deliv) - 1
            ELSE HFN(r.rx_deliv)
    IN  COUNT(rcvd_hfn, sn)

\* handle_data_pdu: "if (rcvd_count > cfg.max_count.notify)"
RxNotifyMaxCountReached(rcvd_count) == rcvd_count > rx_cfg.notify
\* handle_data_pdu: "if (rcvd_count >= cfg.max_count.hard)"
RxHardMaxCountReached(rcvd_count) == rcvd_count >= rx_cfg.hard

\* handle_data_pdu: the one-shot on_max_count_reached() of the notify limit
SignalRxNotify(r, rcvd_count) ==
    IF RxNotifyMaxCountReached(rcvd_count) /\ ~r.max_count_notified
    THEN [Emit(r, EvMaxCountReached) EXCEPT !.max_count_notified = TRUE]
    ELSE r

\* handle_data_pdu: the one-shot on_protocol_failure() of the hard limit
SignalRxOverflow(r) ==
    IF ~r.max_count_overflow
    THEN [Emit(r, EvProtocolFailure) EXCEPT !.max_count_overflow = TRUE]
    ELSE r

\* pdcp_entity_rx::deliver_all_consecutive_counts
RECURSIVE deliver_all_consecutive_counts(_)
deliver_all_consecutive_counts(r) ==
    IF r.rx_deliv # r.rx_next /\ has_sn(r.win, r.rx_deliv)
    THEN deliver_all_consecutive_counts(
             [Emit(r, EvNewSdu(stored_count(r.win, r.rx_deliv))) EXCEPT
                 !.win = remove_sn(r.win, r.rx_deliv),
                 !.rx_deliv = U32(r.rx_deliv + 1)])
    ELSE r

\* Variant of DeliverBelowRxReord that leaves the COUNTs below rx_reord where they are
DeliverBelowRxReord_Nothing(r) == r

\* handle_t_reordering_expire: "Deliver all PDCP SDU(s) with associated COUNT value(s) < RX_REORD"
RECURSIVE DeliverBelowRxReord(_)
DeliverBelowRxReord(r) ==
    IF r.rx_deliv # r.rx_reord
    THEN DeliverBelowRxReord(
             IF has_sn(r.win, r.rx_deliv)
             THEN [Emit(r, EvNewSdu(stored_count(r.win, r.rx_deliv))) EXCEPT
                      !.win = remove_sn(r.win, r.rx_deliv),
                      !.rx_deliv = U32(r.rx_deliv + 1)]
             ELSE [r EXCEPT !.rx_deliv = U32(r.rx_deliv + 1)])
    ELSE r

\* Variant of RestartReordering that runs the timer again without moving rx_reord
RestartReordering_KeepReord(r) ==
    IF r.rx_deliv < r.rx_next
    THEN IF rx_cfg.t_reordering = "ms0"
         THEN Result(r, "expired_ms0_with_gap")
         ELSE [r EXCEPT !.timer_running = TRUE]
    ELSE r

\* handle_t_reordering_expire: restart of the timer when a gap remains
RestartReordering(r) ==
    IF r.rx_deliv < r.rx_next
    THEN IF rx_cfg.t_reordering = "ms0"
         THEN Result(r, "expired_ms0_with_gap")
         ELSE [r EXCEPT !.rx_reord = r.rx_next, !.timer_running = TRUE]
    ELSE r

\* pdcp_entity_rx::handle_t_reordering_expire
handle_t_reordering_expire(r) ==
    RestartReordering(deliver_all_consecutive_counts(DeliverBelowRxReord(r)))

\* Variant of HandleReorderingTimers that leaves t-Reordering running once rx_deliv has
\* reached rx_reord
HandleReorderingTimers_NoStop(r) ==
    IF rx_cfg.t_reordering # "infinity"
    THEN IF rx_cfg.t_reordering = "ms0"
         THEN handle_t_reordering_expire([r EXCEPT !.rx_reord = r.rx_next])
         ELSE IF ~r.timer_running /\ r.rx_deliv < r.rx_next
              THEN [r EXCEPT !.rx_reord = r.rx_next, !.timer_running = TRUE]
              ELSE r
    ELSE r

\* Variant of HandleReorderingTimers that restarts t-Reordering at every accepted PDU with
\* a gap, running or not
HandleReorderingTimers_AlwaysRestart(r) ==
    LET r1 == IF r.timer_running /\ r.rx_deliv >= r.rx_reord
              THEN [r EXCEPT !.timer_running = FALSE]
              ELSE r
    IN  IF rx_cfg.t_reordering # "infinity"
        THEN IF rx_cfg.t_reordering = "ms0"
             THEN handle_t_reordering_expire([r1 EXCEPT !.rx_reord = r1.rx_next])
             ELSE IF r1.rx_deliv < r1.rx_next
                  THEN [r1 EXCEPT !.rx_reord = r1.rx_next, !.timer_running = TRUE]
                  ELSE r1
        ELSE r1

\* Variant of HandleReorderingTimers that stops t-Reordering and never starts it
HandleReorderingTimers_NoStart(r) ==
    LET r1 == IF r.timer_running /\ r.rx_deliv >= r.rx_reord
              THEN [r EXCEPT !.timer_running = FALSE]
              ELSE r
    IN  IF rx_cfg.t_reordering = "ms0"
        THEN handle_t_reordering_expire([r1 EXCEPT !.rx_reord = r1.rx_next])
        ELSE r1

\* handle_data_pdu: "Handle reordering timers"
HandleReorderingTimers(r) ==
    LET r1 == IF r.timer_running /\ r.rx_deliv >= r.rx_reord
              THEN [r EXCEPT !.timer_running = FALSE]
              ELSE r
    IN  IF rx_cfg.t_reordering # "infinity"
        THEN IF rx_cfg.t_reordering = "ms0"
             THEN handle_t_reordering_expire([r1 EXCEPT !.rx_reord = r1.rx_next])
             ELSE IF ~r1.timer_running /\ r1.rx_deliv < r1.rx_next
                  THEN [r1 EXCEPT !.rx_reord = r1.rx_next, !.timer_running = TRUE]
                  ELSE r1
        ELSE r1

\* Variant of StoreAndDeliver that also submits the SDU to the upper layer on arrival,
\* whatever its COUNT
StoreAndDeliver_OutOfOrder(r, rcvd_count) ==
    LET r1 == [r EXCEPT !.win = add_sn(r.win, rcvd_count)]
        r2 == IF rcvd_count >= r1.rx_next THEN [r1 EXCEPT !.rx_next = U32(rcvd_count + 1)] ELSE r1
    IN  IF rcvd_count = r2.rx_deliv
        THEN deliver_all_consecutive_counts(r2)
        ELSE Emit(r2, EvNewSdu(rcvd_count))

\* handle_data_pdu: "Store PDU in Rx window", "Update RX_NEXT", in-order delivery
StoreAndDeliver(r, rcvd_count) ==
    LET r1 == [r EXCEPT !.win = add_sn(r.win, rcvd_count)]
        r2 == IF rcvd_count >= r1.rx_next THEN [r1 EXCEPT !.rx_next = U32(rcvd_count + 1)] ELSE r1
    IN  IF rcvd_count = r2.rx_deliv THEN deliver_all_consecutive_counts(r2) ELSE r2

\* Variant of IsStaleCount that never finds a COUNT stale
IsStaleCount_Never(r, rcvd_count) == FALSE

\* handle_data_pdu: "Check valid rcvd_count" and "Check if PDU has been received"
IsStaleCount(r, rcvd_count) == rcvd_count < r.rx_deliv
IsDuplicateCount(r, rcvd_count) ==
    has_sn(r.win, rcvd_count) /\ stored_count(r.win, rcvd_count) = rcvd_count

\* handle_data_pdu: "Removing old PDU with count={} for new PDU with count={}"
EvictsOldPdu(r, rcvd_count) ==
    has_sn(r.win, rcvd_count) /\ stored_count(r.win, rcvd_count) # rcvd_count

\* Variant of DropIntegrityFailed that leaves the integrity-failure metric alone
DropIntegrityFailed_NoMetric(r) == Result(r, "drop_integrity")

\* handle_data_pdu: "Integrity failed, dropping PDU."
DropIntegrityFailed(r) == Result(Emit(r, EvIntegrityFailed(1)), "drop_integrity")

PduKinds == {"too_small", "bad_mac", "ok"}

\* pdcp_entity_rx::handle_data_pdu; kind: the PDU is no longer than its header, carries a
\* MAC-I that does not verify, or is well formed
handle_data_pdu(r, sn, kind) ==
    IF kind = "too_small" THEN Result(r, "drop_too_small")
    ELSE LET rcvd_count == rcvd_count_of(r, sn)
             r1 == SignalRxNotify(r, rcvd_count)
         IN  IF RxHardMaxCountReached(rcvd_count)
             THEN Result(SignalRxOverflow(r1), "drop_max_count")
             ELSE IF rx_cfg.integrity /\ kind = "bad_mac" THEN DropIntegrityFailed(r1)
             ELSE IF IsStaleCount(r1, rcvd_count) THEN Result(r1, "drop_stale")
             ELSE IF IsDuplicateCount(r1, rcvd_count) THEN Result(r1, "drop_duplicate")
             ELSE LET r2 == IF EvictsOldPdu(r1, rcvd_count)
                            THEN [r1 EXCEPT !.win = remove_sn(r1.win, rcvd_count)]
                            ELSE r1
                  IN  HandleReorderingTimers(StoreAndDeliver(Result(r2, "stored"), rcvd_count))

\* pdcp_entity_rx::deliver_all_sdus
RECURSIVE DeliverAllLoop(_, _)
DeliverAllLoop(r, count) ==
    IF count < r.rx_next
    THEN DeliverAllLoop(IF has_sn(r.win, count)
                        THEN [Emit(r, EvNewSdu(stored_count(r.win, count))) EXCEPT
                                 !.win = remove_sn(r.win, count)]
                        ELSE r, count + 1)
    ELSE r
deliver_all_sdus(r) == DeliverAllLoop(r, r.rx_deliv)

\* pdcp_entity_rx::discard_all_sdus
RECURSIVE discard_all_sdus(_)
discard_all_sdus(r) ==
    IF r.rx_deliv # r.rx_next
    THEN discard_all_sdus([r EXCEPT
             !.win = IF has_sn(r.win, r.rx_deliv) THEN remove_sn(r.win, r.rx_deliv) ELSE @,
             !.rx_deliv = U32(r.rx_deliv + 1)])
    ELSE r

\* Variant of ResetRxState that leaves rx_reord as it is
ResetRxState_KeepReord(r) == [r EXCEPT !.rx_next = 0, !.rx_deliv = 0]

\* reestablish: "for UM DRBs and SRBs, set RX_NEXT and RX_DELIV to the initial value" (st = {})
ResetRxState(r) == [r EXCEPT !.rx_next = 0, !.rx_deliv = 0, !.rx_reord = 0]

\* Variant of reestablish that resets the state before it delivers the stored SDUs
rx_reestablish_ResetFirst(r) ==
    LET r1 == IF is_srb(rx_cfg) THEN discard_all_sdus(r) ELSE r
        r2 == IF is_srb(rx_cfg) \/ is_um(rx_cfg)
              THEN ResetRxState([r1 EXCEPT !.timer_running = FALSE])
              ELSE r1
    IN  IF is_um(rx_cfg) THEN [deliver_all_sdus(r2) EXCEPT !.win = EmptyWindow] ELSE r2

\* pdcp_entity_rx::reestablish
rx_reestablish(r) ==
    LET r1 == IF is_srb(rx_cfg) THEN discard_all_sdus(r) ELSE r
        r2 == IF is_srb(rx_cfg) \/ is_um(rx_cfg)
              THEN LET r3 == [r1 EXCEPT !.timer_running = FALSE]
                   IN  IF is_um(rx_cfg) THEN deliver_all_sdus(r3) ELSE r3
              ELSE r1
    IN  IF is_srb(rx_cfg) \/ is_um(rx_cfg) THEN ResetRxState(r2) ELSE r2


(***************************************************************************)
(* Status report compilation.                                              *)
(***************************************************************************)
\* "ensure to not exceed max control PDU size (9000 Bytes)"
pdcp_control_pdu_max_size == 9000
BitsPerByte == 8
max_bits == (pdcp_control_pdu_max_size - 5) * BitsPerByte

\* compile_status_report: "Set bitmap boundaries", the bitmap is cut after limit bits
BitmapEnd(bitmap_begin, rx_next, limit) ==
    IF bitmap_begin < rx_next /\ rx_next - bitmap_begin > limit
    THEN U32(bitmap_begin + limit)
    ELSE rx_next

\* compile_status_report: "Pack bitmap", one bit per COUNT of [bitmap_begin, bitmap_end)
PackBitmap(r, bitmap_begin, bitmap_end) ==
    [k \in 1..(IF bitmap_begin < bitmap_end THEN bitmap_end - bitmap_begin ELSE 0) |->
        IF has_sn(r.win, U32(bitmap_begin + k - 1)) THEN 1 ELSE 0]

\* The bits a bit_decoder reads back from the bytes a bit_encoder wrote: the last byte is
\* filled up with zero bits
PadToByte(bits) ==
    bits \o [k \in 1..((BitsPerByte - (Len(bits) % BitsPerByte)) % BitsPerByte) |-> 0]

\* Variant of compile_status_report whose bitmap starts at the COUNT equal to FMC
compile_status_report_FromFmc(r) ==
    [well_formed |-> TRUE, fmc |-> r.rx_deliv,
     bitmap |-> PadToByte(PackBitmap(r, r.rx_deliv, r.rx_next))]

\* pdcp_entity_rx::compile_status_report, as the fields the peer unpacks
compile_status_report(r) ==
    LET bitmap_begin == U32(r.rx_deliv + 1)
        bitmap_end == BitmapEnd(bitmap_begin, r.rx_next, max_bits)
    IN  [well_formed |-> TRUE, fmc |-> r.rx_deliv,
         bitmap |-> PadToByte(PackBitmap(r, bitmap_begin, bitmap_end))]

(***************************************************************************)
(* Initial state: the entities as constructed.                             *)
(***************************************************************************)
\* Longest status-report bitmap an input of the model carries.
MaxBitmap == 2
Bitmaps == UNION {[1..n -> {0, 1}] : n \in 0..MaxBitmap}
\* FMC values a status report of the model carries.
FmcInputs == 0..MaxHard

DefaultTxConfig == CHOOSE c \in TxConfigs : TRUE
DefaultRxConfig == CHOOSE c \in RxConfigs : TRUE

TxConstructed(cfg) ==
    /\ tx_cfg = cfg
    /\ tx_st = [tx_next |-> 0, tx_next_ack |-> 0, tx_trans |-> 0]
    /\ tx_window = EmptyWindow
    /\ tx_max_count_notified = FALSE
    /\ tx_max_count_overflow = FALSE
    /\ tx_assigned = {}
    /\ tx_timers = {}
    /\ tx_n_max_count_reached = 0
    /\ tx_n_count_failure = 0

RxConstructed(cfg) ==
    /\ rx_cfg = cfg
    /\ rx_st = [rx_next |-> 0, rx_deliv |-> 0, rx_reord |-> 0]
    /\ rx_window = EmptyWindow
    /\ rx_timer_running = FALSE
    /\ rx_max_count_notified = FALSE
    /\ rx_max_count_overflow = FALSE
    /\ rx_last_deliv = -1
    /\ rx_n_max_count_reached = 0
    /\ rx_n_count_failure = 0

\* No COUNT resolved yet: SN 0 against the initial COUNT 0
NoResolution == count_res = [ref |-> 0, count |-> 0, rx |-> 0, tx |-> 0]

Init ==
    /\ \E c \in TxConfigs : TxConstructed(c)
    /\ \E c \in RxConfigs : RxConstructed(c)
    /\ NoResolution
InitTx ==
    /\ \E c \in TxConfigs : TxConstructed(c)
    /\ RxConstructed(DefaultRxConfig)
    /\ NoResolution
InitRx ==
    /\ TxConstructed(DefaultTxConfig)
    /\ \E c \in RxConfigs : RxConstructed(c)
    /\ NoResolution

(***************************************************************************)
(* Transmitter actions.                                                    *)
(***************************************************************************)
NewCounts(out) == {out[i].n : i \in {j \in Emitted(out, "on_new_pdu") : ~out[j].is_retx}}
RECURSIVE SatAdd(_, _)
SatAdd(n, k) == IF k = 0 THEN n ELSE SatAdd(SatInc(n), k - 1)

\* Variant of ClearTimers in which the timers of the cleared entries keep running
ClearTimers_KeepRunning(timers) == timers

\* reset: tx_window->clear() destroys every entry and, with it, its discard timer
ClearTimers(timers) == {}

\* The running discard timers after an operation left the transmitter as m: handle_sdu
\* starts one for the COUNT it stores ("Only start for finite durations"), and a timer
\* goes with its window entry when remove_sn or clear() destroys the entry
TimersAfter(m, was_reset) ==
    LET started == IF tx_cfg.discard_timer = "finite" THEN NewCounts(m.out) ELSE {}
        removed == WindowCounts(tx_window) \ WindowCounts(m.win)
    IN  IF was_reset THEN ClearTimers(tx_timers) ELSE (tx_timers \ removed) \cup started

\* The transmitter after an operation left it as m; was_reset: the operation ran reset()
TxCommit(m, was_reset) ==
    /\ tx_st' = [tx_next |-> m.tx_next, tx_next_ack |-> m.tx_next_ack, tx_trans |-> m.tx_trans]
    /\ tx_window' = m.win
    /\ tx_max_count_notified' = m.max_count_notified
    /\ tx_max_count_overflow' = m.max_count_overflow
    /\ tx_assigned' = (IF was_reset THEN {} ELSE tx_assigned) \cup NewCounts(m.out)
    /\ tx_timers' = TimersAfter(m, was_reset)
    /\ tx_n_max_count_reached' =
           SatAdd(tx_n_max_count_reached, Cardinality(Emitted(m.out, "on_max_count_reached")))
    /\ tx_n_count_failure' =
           IF m.res = "drop_max_count"
           THEN SatAdd(tx_n_count_failure, Cardinality(Emitted(m.out, "on_protocol_failure")))
           ELSE tx_n_count_failure
    /\ UNCHANGED <<tx_cfg, rx_vars, count_res>>

HandleSdu == \E fail \in SduFailures : TxCommit(handle_sdu(TxNow, fail), FALSE)

TransmitNotification ==
    \E notif_sn \in 0..SnCard :
        TxCommit(handle_transmit_notification(TxNow, notif_sn), FALSE)

DeliveryNotification ==
    \E notif_sn \in 0..SnCard :
        TxCommit(handle_delivery_notification(TxNow, notif_sn), FALSE)

\* discard_callback::operator(): the discard timer of a buffered COUNT expires
DiscardTimerExpire ==
    /\ \E count \in tx_timers :
           TxCommit(discard_pdu(TxNow, count), FALSE)

StatusReport ==
    \/ TxCommit(handle_status_report(TxNow, FALSE, 0, <<>>), FALSE)
    \/ \E fmc \in FmcInputs, bitmap \in Bitmaps :
           TxCommit(handle_status_report(TxNow, TRUE, fmc, bitmap), FALSE)

RetxFailures == {NoEntry} \cup WindowCounts(tx_window)

TxReestablish ==
    \E fail_count \in RetxFailures :
        TxCommit(tx_reestablish(TxNow, fail_count),
                 is_srb(tx_cfg) \/ is_um(tx_cfg))

DataRecovery ==
    /\ is_drb(tx_cfg) /\ is_am(tx_cfg)
    /\ \E fail_count \in RetxFailures :
           TxCommit(data_recovery(TxNow, fail_count), FALSE)

NextTx ==
    \/ HandleSdu
    \/ TransmitNotification
    \/ DeliveryNotification
    \/ DiscardTimerExpire
    \/ StatusReport
    \/ TxReestablish
    \/ DataRecovery

(***************************************************************************)
(* Receiver actions.                                                       *)
(***************************************************************************)
DeliveredCounts(out) == {out[i].n : i \in Emitted(out, "on_new_sdu")}
MaxOf(S, d) == IF S = {} THEN d ELSE CHOOSE x \in S : \A y \in S : y <= x

\* The receiver after an operation left it as r; was_reset: the operation ran st = {}
RxCommit(r, was_reset) ==
    /\ rx_st' = [rx_next |-> r.rx_next, rx_deliv |-> r.rx_deliv, rx_reord |-> r.rx_reord]
    /\ rx_window' = r.win
    /\ rx_timer_running' = r.timer_running
    /\ rx_max_count_notified' = r.max_count_notified
    /\ rx_max_count_overflow' = r.max_count_overflow
    /\ rx_last_deliv' = IF was_reset THEN -1
                        ELSE MaxOf(DeliveredCounts(r.out) \cup {rx_last_deliv}, -1)
    /\ rx_n_max_count_reached' =
           SatAdd(rx_n_max_count_reached, Cardinality(Emitted(r.out, "on_max_count_reached")))
    /\ rx_n_count_failure' =
           SatAdd(rx_n_count_failure, Cardinality(Emitted(r.out, "on_protocol_failure")))
    /\ UNCHANGED <<rx_cfg, tx_vars, count_res>>

HandleDataPdu ==
    \E sn \in 0..(SnCard - 1), kind \in PduKinds :
        RxCommit(handle_data_pdu(RxNow, sn, kind), FALSE)

\* reordering_callback::operator(): t-Reordering expires
ReorderingTimerExpire ==
    /\ rx_timer_running
    /\ \E r \in {handle_t_reordering_expire([RxNow EXCEPT !.timer_running = FALSE])} :
           RxCommit(r, FALSE)

RxReestablish ==
    RxCommit(rx_reestablish(RxNow), is_srb(rx_cfg) \/ is_um(rx_cfg))

NextRx ==
    \/ HandleDataPdu
    \/ ReorderingTimerExpire
    \/ RxReestablish

Next == NextTx \/ NextRx

\* One PDCP entity with both directions: the same bearer on the TX and the RX side
PairConfigs ==
    {<<tc, rc>> \in TxConfigs \X RxConfigs :
        /\ tc.rb_type = rc.rb_type /\ tc.rlc_mode = rc.rlc_mode
        /\ tc.discard_timer = "finite" /\ tc.rlc_sdu_queue = CountCard
        /\ tc.status_report_required
        /\ rc.t_reordering = "finite" /\ rc.integrity
        /\ tc.notify = NotifyLow /\ tc.hard = HardLow
        /\ rc.notify = NotifyLow /\ rc.hard = HardLow}
InitPair ==
    /\ \E p \in PairConfigs : TxConstructed(p[1]) /\ RxConstructed(p[2])
    /\ NoResolution

\* A receiver whose hard limit lets the COUNTs of the last HFN through: cfg.max_count.hard
\* at the top of the COUNT range, t-Reordering not used, no integrity protection
WrapRxConfig ==
    [rb_type |-> "drb", rlc_mode |-> "am", t_reordering |-> "infinity",
     notify |-> CountCard - 2, hard |-> CountCard - 1, integrity |-> FALSE]
InitRxWrap ==
    /\ TxConstructed(DefaultTxConfig)
    /\ \E c \in RxConfigs \cup {WrapRxConfig} : RxConstructed(c)
    /\ NoResolution

\* UM receivers with the hard limit at the top of the COUNT range and t-Reordering in use
WrapUmRxConfigs ==
    {[rb_type |-> "drb", rlc_mode |-> "um", t_reordering |-> t,
      notify |-> CountCard - 2, hard |-> CountCard - 1, integrity |-> FALSE] :
        t \in {"ms0", "finite"}}
InitRxWrapUm ==
    /\ TxConstructed(DefaultTxConfig)
    /\ \E c \in RxConfigs \cup WrapUmRxConfigs : RxConstructed(c)
    /\ NoResolution

\* A transmitter whose hard limit lets tx_next run more than a window ahead: an AM DRB
\* with a finite discard timer and cfg.custom.max_count.hard at twice the window size
LongTxConfig ==
    [rb_type |-> "drb", rlc_mode |-> "am", discard_timer |-> "finite",
     rlc_sdu_queue |-> CountCard, notify |-> 2 * window_size - 1, hard |-> 2 * window_size,
     status_report_required |-> FALSE]
InitTxLong ==
    /\ \E c \in TxConfigs \cup {LongTxConfig} : TxConstructed(c)
    /\ RxConstructed(DefaultRxConfig)
    /\ NoResolution

\* COUNT resolution on its own: the SN of a COUNT resolved against a reference COUNT, by
\* the receiver with rx_deliv at the reference and by the transmitter with its lower edge
\* (tx_next_ack, or tx_trans without a discard timer) at the reference
Resolution(ref, count) ==
    [ref |-> ref, count |-> count,
     rx |-> rcvd_count_of([RxNow EXCEPT !.rx_deliv = ref], SN(count)),
     tx |-> notification_count_estimation(
                [TxNow EXCEPT !.tx_next_ack = ref, !.tx_trans = ref], SN(count))]
ResolveCount ==
    /\ \E count \in 0..(CountCard - 1) : count_res' = Resolution(count_res.ref, count)
    /\ UNCHANGED <<tx_vars, rx_vars>>
\* A transmitter with and one without a discard timer, and any reference COUNT
InitCount ==
    /\ \E d \in {"none", "finite"} : TxConstructed([DefaultTxConfig EXCEPT !.discard_timer = d])
    /\ RxConstructed(DefaultRxConfig)
    /\ \E ref \in 0..(CountCard - 1) : count_res = Resolution(ref, ref)

Spec == Init /\ [][Next]_vars
SpecTx == InitTx /\ [][NextTx]_vars
SpecPair == InitPair /\ [][Next]_vars
SpecRx == InitRx /\ [][NextRx]_vars
SpecRxWrap == InitRxWrap /\ [][NextRx]_vars
SpecRxWrapUm == InitRxWrapUm /\ [][NextRx]_vars
SpecTxLong == InitTxLong /\ [][NextTx]_vars
SpecCount == InitCount /\ [][ResolveCount]_vars


(***************************************************************************)
(* Properties of the transmitter.                                          *)
(***************************************************************************)
\* The state of a transmitter value, without the calls made and the branch taken
TxStateOf(m) == [m EXCEPT !.out = <<>>, !.res = "done"]
NewPduCalls(out) == Emitted(out, "on_new_pdu")
CountOf(out, name) == Cardinality(Emitted(out, name))

\* handle_sdu passes its three drop checks (stated on st, as integers)
SduAccepted ==
    /\ tx_st.tx_trans <= tx_st.tx_next
    /\ tx_st.tx_next - tx_st.tx_trans < tx_cfg.rlc_sdu_queue
    /\ tx_st.tx_next - tx_st.tx_trans < window_size - 1

\* C1: between two resets every successful handle_sdu hands exactly one new (is_retx =
\* false) PDU to the lower layer, carrying COUNT = tx_next as on entry, and increments
\* tx_next by one; the COUNTs used since the last reset are exactly 0..tx_next-1, none
\* of them twice.
C1_CountUsedOnce ==
    /\ tx_assigned = 0..(tx_st.tx_next - 1)
    /\ \A fail \in SduFailures :
           LET m == handle_sdu(TxNow, fail) IN
           m.res = "ok" =>
               /\ \E i \in 1..Len(m.out) :
                      /\ NewPduCalls(m.out) = {i}
                      /\ m.out[i] = EvNewPdu(tx_st.tx_next, FALSE)
               /\ m.tx_next = tx_st.tx_next + 1
               /\ tx_st.tx_next \notin tx_assigned
           
C1_Witness ==
    /\ tx_st.tx_next = 3
    /\ tx_assigned = {0, 1, 2}
    /\ handle_sdu(TxNow, "none").res = "ok"

\* C2: handle_sdu rejects the SDU and changes nothing (st, the window, the one-shot
\* flags; no lower-layer and no control-plane call) whenever on entry tx_trans > tx_next,
\* or tx_next - tx_trans >= rlc_sdu_queue, or tx_next - tx_trans >= window_size - 1.
C2_RejectedSduChangesNothing ==
    (\/ tx_st.tx_trans > tx_st.tx_next
     \/ tx_st.tx_next - tx_st.tx_trans >= tx_cfg.rlc_sdu_queue
     \/ tx_st.tx_next - tx_st.tx_trans >= window_size - 1)
    => \A fail \in SduFailures :
           LET m == handle_sdu(TxNow, fail) IN
           /\ TxStateOf(m) = TxNow
           /\ m.out = <<>>
           /\ m.res \in {"drop_invalid_state", "drop_rlc_queue", "drop_window"}

C2_Witness ==
    /\ tx_st.tx_next - tx_st.tx_trans = window_size - 1
    /\ tx_cfg.rlc_sdu_queue > window_size - 1
    /\ tx_st.tx_next < tx_cfg.hard
    /\ tx_assigned # {}
    /\ handle_sdu(TxNow, "none").res = "drop_window"

\* C3 as stated: once tx_next >= hard_max_count every handle_sdu is dropped (no PDU,
\* tx_next unchanged) and, whatever the number of SDUs submitted, on_protocol_failure()
\* has been signalled for the COUNT exhaustion exactly once.
C3_Original ==
    tx_st.tx_next >= tx_cfg.hard =>
        \A fail \in SduFailures :
            LET m == handle_sdu(TxNow, fail) IN
            /\ NewPduCalls(m.out) = {}
            /\ m.tx_next = tx_st.tx_next
            /\ tx_n_count_failure + CountOf(m.out, "on_protocol_failure") = 1

\* C3 amended: once tx_next >= hard_max_count every handle_sdu is dropped (no PDU,
\* tx_next unchanged); on_protocol_failure() is signalled for the COUNT exhaustion at
\* most once in total, and exactly once as soon as one such handle_sdu is not already
\* rejected by the queue and window checks that precede the max-count check.
C3_OverflowSignalledOnce ==
    /\ tx_n_count_failure <= 1
    /\ tx_max_count_overflow <=> tx_n_count_failure = 1
    /\ tx_st.tx_next >= tx_cfg.hard =>
           \A fail \in SduFailures :
               LET m == handle_sdu(TxNow, fail)
                   total == tx_n_count_failure + CountOf(m.out, "on_protocol_failure")
               IN  /\ NewPduCalls(m.out) = {}
                   /\ m.tx_next = tx_st.tx_next
                   /\ m.tx_next_ack = tx_st.tx_next_ack /\ m.tx_trans = tx_st.tx_trans
                   /\ m.win = tx_window
                   /\ total <= 1
                   /\ SduAccepted => total = 1

C3_Witness ==
    /\ tx_st.tx_next >= tx_cfg.hard
    /\ tx_n_count_failure = 1
    /\ SduAccepted
    /\ handle_sdu(TxNow, "none").res = "drop_max_count"
    /\ handle_sdu(TxNow, "none").out = <<>>

\* C4: on_max_count_reached() is signalled at most once, by the first handle_sdu that
\* passes the drop checks with notify <= tx_next < hard; that SDU and the following
\* ones are transmitted as usual (COUNT = tx_next, tx_next incremented).
C4_NotifySignalledOnce ==
    /\ tx_n_max_count_reached <= 1
    /\ \A fail \in SduFailures :
           LET m == handle_sdu(TxNow, fail)
               in_range == tx_st.tx_next >= tx_cfg.notify /\ tx_st.tx_next < tx_cfg.hard
           IN  /\ CountOf(m.out, "on_max_count_reached") =
                      (IF SduAccepted /\ in_range /\ tx_n_max_count_reached = 0 THEN 1 ELSE 0)
               /\ tx_n_max_count_reached + CountOf(m.out, "on_max_count_reached") <= 1
               /\ (SduAccepted /\ in_range /\ fail = "none") =>
                      /\ m.res = "ok"
                      /\ \E i \in 1..Len(m.out) : m.out[i] = EvNewPdu(tx_st.tx_next, FALSE)
                      /\ m.tx_next = tx_st.tx_next + 1

C4_Witness ==
    /\ tx_n_max_count_reached = 1
    /\ tx_st.tx_next > tx_cfg.notify + 1
    /\ tx_st.tx_next < tx_cfg.hard
    /\ SduAccepted
    /\ handle_sdu(TxNow, "none").res = "ok"


(***************************************************************************)
(* Properties of the receiver and of the one-shot flags.                   *)
(***************************************************************************)
RxStateOf(r) == [r EXCEPT !.out = <<>>, !.res = "done"]
IsNewSdu(e) == e.ev = "on_new_sdu"
DeliveredSeq(out) == SelectSeq(out, IsNewSdu)

\* What each receiver operation makes of the present state
RxDataPduResults == {handle_data_pdu(RxNow, sn, kind) : sn \in 0..(SnCard - 1), kind \in PduKinds}
RxExpiryResults ==
    IF rx_timer_running
    THEN {handle_t_reordering_expire([RxNow EXCEPT !.timer_running = FALSE])}
    ELSE {}
RxResults == RxDataPduResults \cup RxExpiryResults \cup {rx_reestablish(RxNow)}

\* C5 as stated: the receiver signals on_max_count_reached() (once) at the first data PDU
\* whose resolved COUNT is >= notify, and on_protocol_failure() (once) plus a drop at a PDU
\* whose resolved COUNT is >= hard: the comparisons of the transmitter.
C5_Original ==
    \A sn \in 0..(SnCard - 1) :
        LET rcvd_count == rcvd_count_of(RxNow, sn)
            r == handle_data_pdu(RxNow, sn, "ok")
        IN  /\ CountOf(r.out, "on_max_count_reached") =
                   (IF rcvd_count >= rx_cfg.notify /\ rx_n_max_count_reached = 0 THEN 1 ELSE 0)
            /\ CountOf(r.out, "on_protocol_failure") =
                   (IF rcvd_count >= rx_cfg.hard /\ rx_n_count_failure = 0 THEN 1 ELSE 0)
            /\ rcvd_count >= rx_cfg.hard => r.res = "drop_max_count"

\* C6 as stated: once max_count_overflow is set every data PDU is dropped, whatever its
\* resolved COUNT: none is inserted into the window or delivered to the upper layer.
C6_Original ==
    rx_max_count_overflow =>
        \A r \in RxDataPduResults : r.win = rx_window /\ DeliveredSeq(r.out) = <<>>

\* C7 as stated: re-establishment of an SRB or UM bearer (the full reset that zeroes the
\* counters) clears max_count_notified and max_count_overflow.
C7_Original ==
    (is_srb(tx_cfg) \/ is_um(tx_cfg)) =>
        \A fail_count \in RetxFailures :
            LET m == tx_reestablish(TxNow, fail_count) IN
            /\ m.tx_next = 0
            /\ ~m.max_count_notified
            /\ ~m.max_count_overflow

\* C8 as stated: between resets each COUNT is delivered at most once: a data PDU whose
\* resolved COUNT is below rx_deliv or already held in the window is dropped without any
\* state change, and no operation delivers a COUNT twice or delivers again the highest
\* COUNT delivered so far.
C8_Original ==
    /\ \A sn \in 0..(SnCard - 1), kind \in {"ok", "bad_mac"} :
           LET rcvd_count == rcvd_count_of(RxNow, sn)
               r == handle_data_pdu(RxNow, sn, kind)
           IN  (rcvd_count < rx_st.rx_deliv \/ rcvd_count \in WindowCounts(rx_window)) =>
                   RxStateOf(r) = RxNow /\ DeliveredSeq(r.out) = <<>>
    /\ \A r \in RxResults :
           LET d == DeliveredSeq(r.out) IN
           /\ \A i \in 1..Len(d) : d[i].n # rx_last_deliv
           /\ \A i, j \in 1..Len(d) : d[i].n = d[j].n => i = j

\* C9 as stated: between resets the SDUs reach the upper layer in strictly ascending COUNT order,
\* across in-order delivery, forced delivery at t-Reordering expiry and delivery at
\* re-establishment: no operation delivers a COUNT at or below one delivered before.
C9_AscendingDelivery ==
    \A r \in RxResults :
        LET d == DeliveredSeq(r.out) IN
        /\ \A i \in 1..(Len(d) - 1) : d[i].n < d[i + 1].n
        /\ Len(d) > 0 => d[1].n > rx_last_deliv

\* What each transmitter operation other than a reset makes of the present state
TxSduResults == {handle_sdu(TxNow, fail) : fail \in SduFailures}
TxNotificationResults ==
    {handle_transmit_notification(TxNow, sn) : sn \in 0..SnCard}
        \cup {handle_delivery_notification(TxNow, sn) : sn \in 0..SnCard}
TxDiscardResults ==
    IF tx_cfg.discard_timer = "finite"
    THEN {discard_pdu(TxNow, count) : count \in WindowCounts(tx_window)}
    ELSE {}
TxStatusReportResults ==
    {handle_status_report(TxNow, TRUE, fmc, bitmap) : fmc \in FmcInputs, bitmap \in Bitmaps}
        \cup {handle_status_report(TxNow, FALSE, 0, <<>>)}
TxRetransmitResults ==
    (IF is_drb(tx_cfg) /\ is_am(tx_cfg)
     THEN {data_recovery(TxNow, f) : f \in RetxFailures} ELSE {})
        \cup (IF is_srb(tx_cfg) \/ is_um(tx_cfg)
              THEN {} ELSE {tx_reestablish(TxNow, f) : f \in RetxFailures})
TxResultsNoReset ==
    TxSduResults \cup TxNotificationResults \cup TxDiscardResults
        \cup TxStatusReportResults \cup TxRetransmitResults
RxResultsNoReset ==
    RxDataPduResults \cup RxExpiryResults
        \cup (IF is_srb(rx_cfg) \/ is_um(rx_cfg) THEN {} ELSE {rx_reestablish(RxNow)})

\* C10: no operation other than a reset (re-establishment of an SRB or UM bearer)
\* decreases rx_deliv or tx_next_ack.
C10_Monotonic ==
    /\ \A m \in TxResultsNoReset : m.tx_next_ack >= tx_st.tx_next_ack
    /\ \A r \in RxResultsNoReset : r.rx_deliv >= rx_st.rx_deliv

C10_Witness ==
    /\ tx_st.tx_next_ack >= 1
    /\ tx_window # EmptyWindow
    /\ rx_st.rx_deliv >= 1
    /\ rx_timer_running
    /\ \E r \in RxExpiryResults : r.rx_deliv > rx_st.rx_deliv + 1
    /\ \E m \in TxStatusReportResults : m.tx_next_ack > tx_st.tx_next_ack + 1

(***************************************************************************)
(* Ordering of the transmitter's and the receiver's state variables.       *)
(***************************************************************************)
\* C11 as stated: barring a reset, no transmitter operation (handle_sdu, notifications,
\* discard, status report, data_recovery, AM re-establishment) decreases tx_next or
\* tx_trans.
C11_Original ==
    \A m \in TxResultsNoReset :
        m.tx_next >= tx_st.tx_next /\ m.tx_trans >= tx_st.tx_trans

\* C11 amended: barring a reset, no transmitter operation decreases tx_next, and none
\* decreases tx_trans except retransmit_all_pdus (data_recovery, AM re-establishment) on
\* an AM bearer with a discard timer, which sets tx_trans to tx_next_ack.
C11_AdvanceExceptRewind ==
    /\ \A m \in TxSduResults \cup TxNotificationResults \cup TxDiscardResults :
           m.tx_next >= tx_st.tx_next /\ m.tx_trans >= tx_st.tx_trans
    /\ \A fmc \in FmcInputs, bitmap \in Bitmaps :
           LET m == handle_status_report(TxNow, TRUE, fmc, bitmap)
           IN  m.tx_next >= tx_st.tx_next /\ m.tx_trans >= tx_st.tx_trans
    /\ LET m == handle_status_report(TxNow, FALSE, 0, <<>>)
       IN  m.tx_next >= tx_st.tx_next /\ m.tx_trans >= tx_st.tx_trans
    /\ \A m \in TxRetransmitResults :
           /\ m.tx_next >= tx_st.tx_next
           /\ m.tx_trans = IF discard_timer_has_value /\ is_am(tx_cfg)
                           THEN tx_st.tx_next_ack ELSE tx_st.tx_trans

C11_Witness ==
    /\ tx_st.tx_next_ack >= 1
    /\ tx_st.tx_trans > tx_st.tx_next_ack
    /\ \E m \in TxRetransmitResults : m.tx_trans < tx_st.tx_trans
    /\ \E m \in TxNotificationResults : m.tx_trans > tx_st.tx_trans
    /\ \E m \in TxSduResults : m.tx_next > tx_st.tx_next

\* C12: tx_next_ack <= tx_trans <= tx_next in every state reachable from a fresh
\* transmitter by any interleaving of handle_sdu, transmit and delivery notifications,
\* discard-timer expiries, status reports, data recovery and re-establishment.
C12_StateOrdering ==
    /\ tx_st.tx_next_ack <= tx_st.tx_trans
    /\ tx_st.tx_trans <= tx_st.tx_next

C12_Witness ==
    /\ tx_st.tx_next_ack >= 1
    /\ tx_st.tx_next_ack < tx_st.tx_trans
    /\ tx_st.tx_trans < tx_st.tx_next
    /\ \E m \in TxDiscardResults \cup TxStatusReportResults :
           m.tx_next_ack > tx_st.tx_trans /\ m.tx_trans = m.tx_next_ack

\* The data PDU with this SN passes every drop check and finds the slot of its COUNT held
\* by an entry of another COUNT
PduEvictsOldEntry(sn) ==
    LET rcvd_count == rcvd_count_of(RxNow, sn) IN
    /\ ~RxHardMaxCountReached(rcvd_count)
    /\ ~IsStaleCount(RxNow, rcvd_count)
    /\ EvictsOldPdu(RxNow, rcvd_count)

\* C13 as stated: in every reachable receiver state rx_deliv <= rx_next, every entry of
\* the RX window has its stored COUNT in [rx_deliv, rx_next), and no arriving data PDU
\* takes the branch that evicts an entry of a different COUNT from its slot.
C13_Original ==
    /\ rx_st.rx_deliv <= rx_st.rx_next
    /\ \A c \in WindowCounts(rx_window) : rx_st.rx_deliv <= c /\ c < rx_st.rx_next
    /\ \A sn \in 0..(SnCard - 1) : ~PduEvictsOldEntry(sn)

\* C14 as stated: in every reachable receiver state rx_next - rx_deliv <= window_size, also
\* when a COUNT is resolved with HFN(rx_deliv) - 1 at HFN(rx_deliv) = 0 or with
\* HFN(rx_deliv) + 1 at the top of the COUNT range.
C14_Original == rx_st.rx_next - rx_st.rx_deliv <= window_size

(***************************************************************************)
(* Status report.                                                          *)
(***************************************************************************)
\* The buffered COUNTs a well-formed status report (fmc, bitmap) acknowledges: those below
\* FMC and those at FMC + 1 + i whose bit i is 1 (bitmap[i + 1] of the sequence)
AcknowledgedCounts(win, fmc, bitmap) ==
    {c \in WindowCounts(win) :
        \/ c < fmc
        \/ \E i \in 1..Len(bitmap) : bitmap[i] = 1 /\ c = fmc + i}

\* C15: on a transmitter with a discard timer, handle_status_report with a well-formed
\* report (FMC, bitmap) removes from the window exactly the buffered COUNTs below FMC and
\* the buffered COUNTs FMC + 1 + i whose bit i is 1; the COUNT equal to FMC, the COUNTs
\* whose bit is 0 and those beyond the bitmap stay; each discard calls on_discard_pdu with
\* the SN of its COUNT, and nothing else is called.
C15_StatusReportDiscards ==
    discard_timer_has_value =>
        \A fmc \in FmcInputs, bitmap \in Bitmaps :
            LET m == handle_status_report(TxNow, TRUE, fmc, bitmap)
                D == AcknowledgedCounts(tx_window, fmc, bitmap)
            IN  /\ WindowCounts(m.win) = WindowCounts(tx_window) \ D
                /\ Len(m.out) = Cardinality(D)
                /\ \A c \in D : \E i \in 1..Len(m.out) : m.out[i] = EvDiscardPdu(SN(c))

C15_Witness ==
    /\ discard_timer_has_value
    /\ WindowCounts(tx_window) = {0, 1, 2, 3}
    /\ AcknowledgedCounts(tx_window, 1, <<1, 0>>) = {0, 2}
    /\ WindowCounts(handle_status_report(TxNow, TRUE, 1, <<1, 0>>).win) = {1, 3}


\* The transmitter after it handled the status report the receiver compiles now
StatusReportRoundTrip ==
    LET report == compile_status_report(RxNow)
    IN  handle_status_report(TxNow, report.well_formed, report.fmc, report.bitmap)
\* The COUNTs above FMC the receiver holds, which its bitmap marks with 1
ReportedReceived ==
    {c \in (rx_st.rx_deliv + 1)..(rx_st.rx_next - 1) : has_sn(rx_window, c)}

ExpiryDelivers ==
    {c \in WindowCounts(rx_window) :
        \/ c < rx_st.rx_reord
        \/ c >= rx_st.rx_reord /\ \A k \in rx_st.rx_reord..c : has_sn(rx_window, k)}

\* C17: with a finite non-zero t_reordering, an accepted PDU whose COUNT is above rx_deliv
\* is stored and nothing is delivered; afterwards t-Reordering runs, started with
\* rx_reord = rx_next unless it was already running and rx_deliv < rx_reord. At expiry
\* the stored SDUs with COUNT < rx_reord and then the contiguous run from rx_reord are
\* delivered in ascending order, and rx_deliv ends at or above the rx_reord of the expiry,
\* right after the last COUNT delivered from the run.
C17_ReorderingScenario ==
    rx_cfg.t_reordering = "finite" =>
        /\ \A sn \in 0..(SnCard - 1) :
               LET rcvd_count == rcvd_count_of(RxNow, sn)
                   r == handle_data_pdu(RxNow, sn, "ok")
               IN  (r.res = "stored" /\ rcvd_count > rx_st.rx_deliv) =>
                       /\ DeliveredCounts(r.out) = {}
                       /\ WindowCounts(r.win) = WindowCounts(rx_window) \cup {rcvd_count}
                       /\ r.rx_deliv = rx_st.rx_deliv
                       /\ r.timer_running
                       /\ r.rx_reord = IF rx_timer_running /\ rx_st.rx_deliv < rx_st.rx_reord
                                       THEN rx_st.rx_reord ELSE r.rx_next
        /\ rx_timer_running =>
               LET r == handle_t_reordering_expire([RxNow EXCEPT !.timer_running = FALSE])
                   d == DeliveredSeq(r.out)
               IN  /\ {d[i].n : i \in 1..Len(d)} = ExpiryDelivers
                   /\ \A i, j \in 1..Len(d) : i < j => d[i].n < d[j].n
                   /\ r.rx_deliv >= rx_st.rx_reord
                   /\ r.rx_deliv = rx_st.rx_reord
                          + Cardinality({c \in ExpiryDelivers : c >= rx_st.rx_reord})
                   /\ WindowCounts(r.win) = WindowCounts(rx_window) \ ExpiryDelivers

\* COUNTs 0, 1, 3 received: 0 and 1 delivered, 3 held with rx_reord = 4 and the timer
\* running; the expiry delivers 3 and rx_deliv becomes 4
C17_Witness ==
    /\ rx_cfg.t_reordering = "finite" /\ rx_timer_running
    /\ rx_st = [rx_next |-> 4, rx_deliv |-> 2, rx_reord |-> 4]
    /\ WindowCounts(rx_window) = {3} /\ rx_last_deliv = 1
    /\ LET r == handle_t_reordering_expire([RxNow EXCEPT !.timer_running = FALSE])
       IN  r.out = <<EvNewSdu(3)>> /\ r.rx_deliv = 4 /\ ~r.timer_running


(***************************************************************************)
(* Integrity failures.                                                     *)
(***************************************************************************)
\* A data PDU with this SN reaches the integrity verification of handle_data_pdu
ReachesIntegrityVerification(sn) ==
    rx_cfg.integrity /\ ~RxHardMaxCountReached(rcvd_count_of(RxNow, sn))

\* C18: a data PDU whose integrity verification fails is dropped with rx_deliv, rx_next,
\* rx_reord, the window and the state of t-Reordering unchanged, nothing is delivered to
\* the upper layer, and the integrity-failure counter is incremented once, by 1.
C18_IntegrityFailureDrop ==
    \A sn \in 0..(SnCard - 1) :
        ReachesIntegrityVerification(sn) =>
            LET r == handle_data_pdu(RxNow, sn, "bad_mac")
            IN  /\ r.res = "drop_integrity"
                /\ r.rx_deliv = rx_st.rx_deliv /\ r.rx_next = rx_st.rx_next
                /\ r.rx_reord = rx_st.rx_reord
                /\ r.win = rx_window
                /\ r.timer_running = rx_timer_running
                /\ DeliveredSeq(r.out) = <<>>
                /\ Cardinality(Emitted(r.out, "metrics_add_integrity_failed_pdus")) = 1
                /\ \A i \in Emitted(r.out, "metrics_add_integrity_failed_pdus") : r.out[i].n = 1

\* COUNT 3 is held and COUNT 2 is awaited: a PDU with SN 2 that verified would deliver 2
\* and 3; with a MAC-I that does not verify it changes nothing
C18_Witness ==
    /\ rx_cfg.integrity /\ rx_timer_running
    /\ rx_st.rx_deliv = 2 /\ WindowCounts(rx_window) = {3}
    /\ ReachesIntegrityVerification(2)
    /\ DeliveredCounts(handle_data_pdu(RxNow, 2, "ok").out) = {2, 3}
    /\ handle_data_pdu(RxNow, 2, "bad_mac").out = <<EvIntegrityFailed(1)>>

\* C19 as stated: handling a data PDU whose integrity verification fails signals neither
\* on_max_count_reached() nor on_protocol_failure() and changes neither one-shot flag,
\* whatever COUNT its SN resolves to.
C19_Original ==
    \A sn \in 0..(SnCard - 1) :
        ReachesIntegrityVerification(sn) =>
            LET r == handle_data_pdu(RxNow, sn, "bad_mac")
            IN  /\ Emitted(r.out, "on_max_count_reached") = {}
                /\ Emitted(r.out, "on_protocol_failure") = {}
                /\ r.max_count_notified = rx_max_count_notified
                /\ r.max_count_overflow = rx_max_count_overflow


(***************************************************************************)
(* COUNT resolution.                                                       *)
(***************************************************************************)
\* C20: for a reference COUNT ref and a COUNT c with ref - window_size <= c <
\* ref + window_size (as integers, so without a wrap of the COUNT), resolving SN(c)
\* against ref by the three-case HFN rule returns c; and the receiver (reference rx_deliv)
\* and notification_count_estimation (reference tx_next_ack or tx_trans) return the same
\* COUNT for every reference and every SN.
C20_ResolutionRoundTrip ==
    /\ count_res.rx = count_res.tx
    /\ (/\ count_res.ref - window_size <= count_res.count
        /\ count_res.count < count_res.ref + window_size) =>
           count_res.rx = count_res.count /\ count_res.tx = count_res.count

\* A COUNT of the HFN below the reference's (SN 5 of HFN 0 against SN 1 of HFN 1)
\* resolved back to itself
C20_Witness ==
    /\ count_res.ref = SnCard + 1 /\ count_res.count = SnCard + 1 - window_size
    /\ HFN(count_res.count) = HFN(count_res.ref) - 1
    /\ count_res.rx = count_res.count /\ count_res.tx = count_res.count


(***************************************************************************)
(* Re-establishment.                                                       *)
(***************************************************************************)
\* The calls in out are one retransmission (on_new_pdu, is_retx) for each COUNT of S, in
\* ascending order of COUNT, and nothing else
RetransmitsAscending(out, S) ==
    /\ Len(out) = Cardinality(S)
    /\ \A c \in S : \E i \in 1..Len(out) : out[i] = EvNewPdu(c, TRUE)
    /\ \A i, j \in 1..Len(out) : i < j => out[i].n < out[j].n

C21_Witness ==
    /\ is_drb(tx_cfg) /\ is_am(tx_cfg)
    /\ tx_st.tx_next_ack = 1 /\ WindowCounts(tx_window) = {1, 2, 3}
    /\ tx_reestablish(TxNow, NoEntry).out
           = <<EvNewPdu(1, TRUE), EvNewPdu(2, TRUE), EvNewPdu(3, TRUE)>>


\* C22: re-establishment of the receiver of an SRB or UM bearer leaves rx_next = rx_deliv
\* = rx_reord = 0, an empty window and t-Reordering stopped, whatever the state before;
\* on an AM DRB rx_next, rx_deliv, rx_reord, the window and the state of the timer are
\* unchanged and nothing is delivered.
C22_RxReestablish ==
    LET r == rx_reestablish(RxNow)
    IN  IF is_srb(rx_cfg) \/ is_um(rx_cfg)
        THEN /\ r.rx_next = 0 /\ r.rx_deliv = 0 /\ r.rx_reord = 0
             /\ r.win = EmptyWindow
             /\ ~r.timer_running
        ELSE RxStateOf(r) = RxNow /\ r.out = <<>>

\* A UM receiver holding COUNT 3 behind a gap with t-Reordering running
C22_Witness ==
    /\ is_um(rx_cfg) /\ rx_timer_running
    /\ rx_st = [rx_next |-> 4, rx_deliv |-> 2, rx_reord |-> 4]
    /\ WindowCounts(rx_window) = {3}
    /\ RxStateOf(rx_reestablish(RxNow)) =
           [RxNow EXCEPT !.rx_next = 0, !.rx_deliv = 0, !.rx_reord = 0,
                         !.win = EmptyWindow, !.timer_running = FALSE]


C24_RetransmitAll ==
    \A fail_count \in RetxFailures :
        LET m == retransmit_all_pdus(TxNow, fail_count)
            B == WindowCounts(tx_window)
        IN  IF ~(discard_timer_has_value /\ is_am(tx_cfg))
            THEN TxStateOf(m) = TxNow /\ m.out = <<>>
            ELSE /\ TxStateOf(m) = [TxNow EXCEPT !.tx_trans = tx_st.tx_next_ack]
                 /\ \A c \in B : tx_st.tx_next_ack <= c /\ c < tx_st.tx_next
                 /\ IF fail_count = NoEntry
                    THEN RetransmitsAscending(m.out, B)
                    ELSE /\ m.out[Len(m.out)] = EvProtocolFailure
                         /\ RetransmitsAscending(SubSeq(m.out, 1, Len(m.out) - 1),
                                                 {c \in B : c < fail_count})

\* COUNTs 1, 2, 3 buffered, tx_trans ahead of tx_next_ack, the pipeline failing at COUNT 2
C24_Witness ==
    /\ discard_timer_has_value /\ is_am(tx_cfg)
    /\ tx_st.tx_next_ack = 1 /\ tx_st.tx_trans > 1
    /\ WindowCounts(tx_window) = {1, 2, 3}
    /\ retransmit_all_pdus(TxNow, 2).out = <<EvNewPdu(1, TRUE), EvProtocolFailure>>
    /\ retransmit_all_pdus(TxNow, 2).tx_trans = 1


(***************************************************************************)
(* Failures and no-ops of the transmitter.                                 *)
(***************************************************************************)
\* The step of handle_sdu named by fail is reached and fails: the SDU passed the drop
\* checks and the hard limit, and a copy is only made on an AM bearer with a discard timer
SduPipelineFails(fail) ==
    /\ SduAccepted /\ tx_st.tx_next < tx_cfg.hard
    /\ fail \in {"copy", "header", "security"}
    /\ fail = "copy" => discard_timer_has_value /\ is_am(tx_cfg)

\* C25: when handle_sdu fails at the SDU copy, the header write or the security pipeline,
\* it signals on_protocol_failure() once and returns with tx_next, tx_next_ack, tx_trans
\* and the window unchanged, no discard timer started, and no on_new_pdu or
\* on_discard_pdu call.
C25_SduFailureNoEffect ==
    \A fail \in SduFailures :
        SduPipelineFails(fail) =>
            LET m == handle_sdu(TxNow, fail)
            IN  /\ m.res \in {"fail_copy", "fail_header", "fail_security"}
                /\ CountOf(m.out, "on_protocol_failure") = 1
                /\ m.tx_next = tx_st.tx_next /\ m.tx_next_ack = tx_st.tx_next_ack
                /\ m.tx_trans = tx_st.tx_trans
                /\ m.win = tx_window
                /\ TimersAfter(m, FALSE) = tx_timers
                /\ Emitted(m.out, "on_new_pdu") = {}
                /\ Emitted(m.out, "on_discard_pdu") = {}

\* An AM DRB with a finite discard timer: the same SDU would be stored with a timer and
\* sent as COUNT 2 if nothing failed
C25_Witness ==
    /\ is_am(tx_cfg) /\ tx_cfg.discard_timer = "finite"
    /\ tx_st.tx_next = 2 /\ WindowCounts(tx_window) = {0, 1}
    /\ \A fail \in {"copy", "header", "security"} : SduPipelineFails(fail)
    /\ handle_sdu(TxNow, "security").out = <<EvProtocolFailure>>
    /\ TimersAfter(handle_sdu(TxNow, "none"), FALSE) = {0, 1, 2}


MinOf(S) == CHOOSE x \in S : \A y \in S : x <= y
\* The COUNTs a caller can hand to discard_pdu: up to the highest COUNT a status report
\* of the model names
DiscardInputs == 0..(MaxHard + MaxBitmap)

\* C26 as stated: discard_pdu(count) changes no state and calls nothing when no discard
\* timer is configured, when count is outside [tx_next_ack, tx_next) or when count is not
\* in the window; otherwise it calls on_discard_pdu(SN(count)) once, removes exactly that
\* entry, sets tx_next_ack to the lowest COUNT that is in the window or equal to tx_next,
\* and raises tx_trans to tx_next_ack if it was below.
C26_Original ==
    \A count \in DiscardInputs :
        LET m == discard_pdu(TxNow, count)
        IN  IF \/ ~discard_timer_has_value
               \/ count < tx_st.tx_next_ack \/ count >= tx_st.tx_next
               \/ count \notin WindowCounts(tx_window)
            THEN TxStateOf(m) = TxNow /\ m.out = <<>>
            ELSE /\ m.out = <<EvDiscardPdu(SN(count))>>
                 /\ WindowCounts(m.win) = WindowCounts(tx_window) \ {count}
                 /\ m.tx_next = tx_st.tx_next
                 /\ m.tx_next_ack = MinOf(WindowCounts(m.win) \cup {tx_st.tx_next})
                 /\ m.tx_trans = IF tx_st.tx_trans < m.tx_next_ack
                                 THEN m.tx_next_ack ELSE tx_st.tx_trans
                 /\ m.max_count_notified = tx_max_count_notified
                 /\ m.max_count_overflow = tx_max_count_overflow

(***************************************************************************)
(* Notifications of the lower layer.                                       *)
(***************************************************************************)
\* The SNs a notification can carry: every SN of the bearer and one that is too large
NotifSns == 0..SnCard

\* The notification SN is valid and resolves to a COUNT in [tx_trans, tx_next)
ValidTransmitNotification(notif_sn) ==
    /\ notif_sn < SnCard
    /\ notification_count_estimation(TxNow, notif_sn) >= tx_st.tx_trans
    /\ notification_count_estimation(TxNow, notif_sn) < tx_st.tx_next

\* C27: handle_transmit_notification(sn) sets tx_trans to the resolved COUNT + 1 when sn
\* is below the SN cardinality and the resolved COUNT lies in [tx_trans, tx_next), with
\* tx_next and the one-shot flags untouched; in every other case (sn too large, COUNT
\* below tx_trans, COUNT at or above tx_next) the whole transmitter state is unchanged;
\* in no case is anything signalled to the control plane.
C27_TransmitNotification ==
    \A notif_sn \in NotifSns :
        LET m == handle_transmit_notification(TxNow, notif_sn)
            notif_count == notification_count_estimation(TxNow, notif_sn)
        IN  /\ Emitted(m.out, "on_protocol_failure") = {}
            /\ Emitted(m.out, "on_max_count_reached") = {}
            /\ IF ValidTransmitNotification(notif_sn)
               THEN /\ m.tx_trans = notif_count + 1
                    /\ m.tx_trans > tx_st.tx_trans
                    /\ m.tx_next = tx_st.tx_next
                    /\ m.max_count_notified = tx_max_count_notified
                    /\ m.max_count_overflow = tx_max_count_overflow
               ELSE TxStateOf(m) = TxNow /\ m.out = <<>>

\* Three PDUs sent and the first already notified: SN 2 moves tx_trans from 1 to 3, while
\* SN 0 (below tx_trans), SN 3 (not sent yet) and the SN that is too large change nothing
C27_Witness ==
    /\ tx_st.tx_next = 3 /\ tx_st.tx_trans = 1
    /\ ValidTransmitNotification(2)
    /\ handle_transmit_notification(TxNow, 2).tx_trans = 3
    /\ handle_transmit_notification(TxNow, 0).res = "too_low"
    /\ handle_transmit_notification(TxNow, 3).res = "too_high"
    /\ handle_transmit_notification(TxNow, SnCard).res = "invalid_sn"

\* The notification SN is valid and resolves to a COUNT in [tx_next_ack, tx_next)
ValidDeliveryNotification(notif_sn) ==
    /\ notif_sn < SnCard
    /\ notification_count_estimation(TxNow, notif_sn) >= tx_st.tx_next_ack
    /\ notification_count_estimation(TxNow, notif_sn) < tx_st.tx_next

\* stop_discard_timer(c) has run on the way from the present state to m: no entry with a
\* COUNT in [tx_next_ack, c] is left, tx_next_ack is c + 1, and no on_discard_pdu was called
RetiredThrough(m, c) ==
    /\ \A x \in WindowCounts(tx_window) :
           (tx_st.tx_next_ack <= x /\ x <= c) => x \notin WindowCounts(m.win)
    /\ WindowCounts(m.win) \subseteq WindowCounts(tx_window)
    /\ m.tx_next_ack = c + 1
    /\ Emitted(m.out, "on_discard_pdu") = {}

\* C28: with a discard timer configured, on a UM bearer a valid transmit notification for
\* COUNT c removes every window entry with COUNT in [tx_next_ack, c] and sets tx_next_ack
\* to c + 1, and a delivery notification changes nothing; on an AM bearer a valid delivery
\* notification for COUNT c does that removal, and a transmit notification removes no
\* window entry and leaves tx_next_ack unchanged; no notification calls on_discard_pdu.
C28_TimersRetiredByMode ==
    discard_timer_has_value =>
        \A notif_sn \in NotifSns :
            LET t == handle_transmit_notification(TxNow, notif_sn)
                d == handle_delivery_notification(TxNow, notif_sn)
                c == notification_count_estimation(TxNow, notif_sn)
            IN  /\ Emitted(t.out, "on_discard_pdu") = {}
                /\ Emitted(d.out, "on_discard_pdu") = {}
                /\ IF is_um(tx_cfg)
                   THEN /\ ValidTransmitNotification(notif_sn) => RetiredThrough(t, c)
                        /\ TxStateOf(d) = TxNow
                   ELSE /\ ValidDeliveryNotification(notif_sn) => RetiredThrough(d, c)
                        /\ t.win = tx_window /\ t.tx_next_ack = tx_st.tx_next_ack

\* An AM DRB holding COUNTs 0, 1, 2, none notified yet: the delivery notification for SN 1
\* retires COUNTs 0 and 1, the transmit notification for SN 1 only moves tx_trans
C28_Witness ==
    /\ discard_timer_has_value /\ is_am(tx_cfg)
    /\ tx_st = [tx_next |-> 3, tx_next_ack |-> 0, tx_trans |-> 0]
    /\ WindowCounts(tx_window) = {0, 1, 2}
    /\ ValidDeliveryNotification(1)
    /\ WindowCounts(handle_delivery_notification(TxNow, 1).win) = {2}
    /\ handle_delivery_notification(TxNow, 1).tx_next_ack = 2
    /\ handle_transmit_notification(TxNow, 1).tx_trans = 2
    /\ handle_transmit_notification(TxNow, 1).win = tx_window

(***************************************************************************)
(* The lower edge of the TX window.                                        *)
(***************************************************************************)
\* C29 as stated: with a discard timer configured, after every transmitter operation
\* tx_next_ack is the COUNT of the oldest element held in the TX window, or equals
\* tx_next when the window is empty.
C29_Original ==
    discard_timer_has_value =>
        tx_st.tx_next_ack = MinOf(WindowCounts(tx_window) \cup {tx_st.tx_next})

(***************************************************************************)
(* The entries of the TX window.                                           *)
(***************************************************************************)
\* C30 as stated: with a discard timer configured, a successful handle_sdu leaves a
\* window entry whose stored COUNT is the COUNT just assigned; if the slot was held by an
\* older COUNT, that COUNT is first discarded through discard_pdu (on_discard_pdu called
\* for it before the new PDU is handed down, its entry removed, tx_next_ack advanced);
\* and in every reachable state each window entry's stored COUNT c is the COUNT of its
\* slot and satisfies tx_next_ack <= c < tx_next and tx_next - c <= window_size.
C30_Original ==
    discard_timer_has_value =>
        /\ LET m == handle_sdu(TxNow, "none")
               old_count == stored_count(tx_window, tx_st.tx_next)
           IN  m.res = "ok" =>
                   /\ has_sn(m.win, tx_st.tx_next)
                   /\ stored_count(m.win, tx_st.tx_next) = tx_st.tx_next
                   /\ IF has_sn(tx_window, tx_st.tx_next)
                      THEN /\ old_count < tx_st.tx_next
                           /\ {m.out[i] : i \in Emitted(m.out, "on_discard_pdu")}
                                  = {EvDiscardPdu(SN(old_count))}
                           /\ CountOf(m.out, "on_discard_pdu") = 1
                           /\ \A i \in Emitted(m.out, "on_discard_pdu"),
                                 j \in NewPduCalls(m.out) : i < j
                           /\ WindowCounts(m.win)
                                  = (WindowCounts(tx_window) \ {old_count}) \cup {tx_st.tx_next}
                           /\ m.tx_next_ack > tx_st.tx_next_ack
                      ELSE /\ Emitted(m.out, "on_discard_pdu") = {}
                           /\ WindowCounts(m.win) = WindowCounts(tx_window) \cup {tx_st.tx_next}
        /\ \A s \in Slots : tx_window[s] # NoEntry =>
               /\ tx_window[s] % window_size = s
               /\ tx_st.tx_next_ack <= tx_window[s] /\ tx_window[s] < tx_st.tx_next
               /\ tx_st.tx_next - tx_window[s] <= window_size

(***************************************************************************)
(* t-Reordering.                                                           *)
(***************************************************************************)
\* C31: after an accepted data PDU with a finite non-zero t_reordering, a running timer
\* with rx_deliv >= rx_reord is stopped; then, if the timer is not running and
\* rx_deliv < rx_next, rx_reord is set to rx_next and the timer is started; a running
\* timer with rx_deliv < rx_reord stays running with rx_reord unchanged; without a gap the
\* timer is left stopped. With t_reordering infinite the timer never runs and rx_reord
\* never changes.
C31_ReorderingTransitions ==
    /\ rx_cfg.t_reordering = "infinity" => ~rx_timer_running /\ rx_st.rx_reord = 0
    /\ \A sn \in 0..(SnCard - 1) :
           LET r == handle_data_pdu(RxNow, sn, "ok")
               still_running == rx_timer_running /\ r.rx_deliv < rx_st.rx_reord
           IN  r.res = "stored" =>
                   /\ rx_cfg.t_reordering = "finite" =>
                          IF still_running
                          THEN r.timer_running /\ r.rx_reord = rx_st.rx_reord
                          ELSE IF r.rx_deliv < r.rx_next
                               THEN r.timer_running /\ r.rx_reord = r.rx_next
                               ELSE ~r.timer_running /\ r.rx_reord = rx_st.rx_reord
                   /\ rx_cfg.t_reordering = "infinity" =>
                          ~r.timer_running /\ r.rx_reord = rx_st.rx_reord

\* COUNTs 0 and 2 received, the timer running with rx_reord = 3: COUNT 3 leaves the timer
\* and rx_reord alone (rx_deliv = 1 < 3), while COUNT 1 closes the gap and stops the timer
C31_Witness ==
    /\ rx_cfg.t_reordering = "finite" /\ rx_timer_running
    /\ rx_st = [rx_next |-> 3, rx_deliv |-> 1, rx_reord |-> 3]
    /\ WindowCounts(rx_window) = {2}
    /\ LET r == handle_data_pdu(RxNow, 3, "ok")
       IN  r.res = "stored" /\ r.timer_running /\ r.rx_reord = 3 /\ r.rx_next = 4
    /\ LET r == handle_data_pdu(RxNow, 1, "ok")
       IN  r.res = "stored" /\ ~r.timer_running /\ r.rx_deliv = 3

\* C32: with t_reordering = 0 every accepted data PDU is followed by an inline expiry
\* with rx_reord = rx_next, after which rx_deliv = rx_next and the RX window is empty; the
\* branch of the expiry handler for "expired after 0 ms with rx_deliv < rx_next" is never
\* taken and the timer is never started.
C32_ZeroReordering ==
    rx_cfg.t_reordering = "ms0" =>
        /\ ~rx_timer_running
        /\ rx_st.rx_deliv = rx_st.rx_next /\ rx_window = EmptyWindow
        /\ \A sn \in 0..(SnCard - 1) :
               LET r == handle_data_pdu(RxNow, sn, "ok")
                   rcvd_count == rcvd_count_of(RxNow, sn)
               IN  /\ r.res # "expired_ms0_with_gap"
                   /\ ~r.timer_running
                   /\ r.res = "stored" =>
                          /\ r.rx_next = rcvd_count + 1
                          /\ r.rx_reord = r.rx_next /\ r.rx_deliv = r.rx_next
                          /\ r.win = EmptyWindow
                          /\ DeliveredSeq(r.out) = <<EvNewSdu(rcvd_count)>>

\* COUNT 0 was delivered; the PDU with SN 2 jumps the gap at COUNT 1, is delivered at
\* once and takes rx_deliv to 3
C32_Witness ==
    /\ rx_cfg.t_reordering = "ms0"
    /\ rx_st.rx_deliv = 1 /\ rx_st.rx_next = 1 /\ rx_last_deliv = 0
    /\ LET r == handle_data_pdu(RxNow, 2, "ok")
       IN  r.res = "stored" /\ r.out = <<EvNewSdu(2)>> /\ r.rx_deliv = 3 /\ r.rx_reord = 3

\* C33: after the expiry handler of t-Reordering (t_reordering not 0), if rx_deliv <
\* rx_next still holds the timer is running again with rx_reord = rx_next; if rx_deliv =
\* rx_next the timer is left stopped, with rx_reord as it was.
C33_ExpiryRestart ==
    (rx_timer_running /\ rx_cfg.t_reordering # "ms0") =>
        LET r == handle_t_reordering_expire([RxNow EXCEPT !.timer_running = FALSE])
        IN  /\ r.rx_next = rx_st.rx_next
            /\ r.rx_deliv <= r.rx_next
            /\ IF r.rx_deliv < r.rx_next
               THEN r.timer_running /\ r.rx_reord = r.rx_next
               ELSE ~r.timer_running /\ r.rx_reord = rx_st.rx_reord

\* COUNT 1 came first (rx_reord = 2), then COUNT 3: the expiry delivers COUNT 1, stops at
\* the gap at COUNT 2 and runs the timer again with rx_reord = 4
C33_Witness ==
    /\ rx_timer_running /\ rx_cfg.t_reordering = "finite"
    /\ rx_st = [rx_next |-> 4, rx_deliv |-> 0, rx_reord |-> 2]
    /\ WindowCounts(rx_window) = {1, 3}
    /\ LET r == handle_t_reordering_expire([RxNow EXCEPT !.timer_running = FALSE])
       IN  r.out = <<EvNewSdu(1)>> /\ r.rx_deliv = 2 /\ r.timer_running /\ r.rx_reord = 4

(***************************************************************************)
(* The status report of the receiver.                                      *)
(***************************************************************************)
\* The smaller of two numbers
MinNat(a, b) == IF a < b THEN a ELSE b
\* The number of COUNTs between rx_deliv + 1 and rx_next
BitmapSpan == IF rx_st.rx_next > rx_st.rx_deliv + 1 THEN rx_st.rx_next - (rx_st.rx_deliv + 1) ELSE 0
\* Limits on the bitmap length that cut a bitmap of the model short, and some that do not
BitLimits == 0..window_size

\* C34 as stated: compile_status_report produces FMC = rx_deliv followed by a bitmap of
\* min(max(rx_next - (rx_deliv + 1), 0), max_bits) bits (filled up with zero bits to a
\* whole byte) in which bit i is 1 exactly when the RX window holds an entry at COUNT
\* rx_deliv + 1 + i; when rx_next <= rx_deliv + 1 the bitmap is empty; for any limit in
\* place of max_bits the bitmap covers min(max(rx_next - (rx_deliv + 1), 0), limit) COUNTs.
C34_Original ==
    LET report == compile_status_report(RxNow)
        n == MinNat(BitmapSpan, max_bits)
    IN  /\ report.fmc = rx_st.rx_deliv
        /\ Len(report.bitmap) >= n /\ Len(report.bitmap) < n + BitsPerByte
        /\ Len(report.bitmap) % BitsPerByte = 0
        /\ \A k \in 1..Len(report.bitmap) :
               report.bitmap[k] = 1 <=>
                   (k <= n /\ rx_st.rx_deliv + k \in WindowCounts(rx_window))
        /\ rx_st.rx_next <= rx_st.rx_deliv + 1 => report.bitmap = <<>>
        /\ \A limit \in BitLimits :
               LET bitmap_begin == rx_st.rx_deliv + 1
                   bitmap_end == BitmapEnd(bitmap_begin, rx_st.rx_next, limit)
               IN  Len(PackBitmap(RxNow, bitmap_begin, bitmap_end)) = MinNat(BitmapSpan, limit)

(***************************************************************************)
(* Data recovery.                                                          *)
(***************************************************************************)
\* C35: data_recovery on an AM DRB first hands the status report, when status reports
\* are configured, to the lower layer as one control PDU with is_retx = false, and only
\* then does what retransmit_all_pdus does; no retransmitted data PDU is handed down
\* before the status report, and no status report is sent when none is configured.
C35_DataRecoveryOrder ==
    (is_drb(tx_cfg) /\ is_am(tx_cfg)) =>
        \A fail_count \in RetxFailures :
            LET m == data_recovery(TxNow, fail_count)
                retx == retransmit_all_pdus(TxNow, fail_count)
                ctrl == Emitted(m.out, "on_new_pdu_ctrl")
            IN  /\ TxStateOf(m) = TxStateOf(retx)
                /\ IF tx_cfg.status_report_required
                   THEN /\ ctrl = {1} /\ m.out[1] = EvCtrlPdu /\ ~m.out[1].is_retx
                        /\ SubSeq(m.out, 2, Len(m.out)) = retx.out
                        /\ \A j \in NewPduCalls(m.out) : j > 1 /\ m.out[j].is_retx
                   ELSE ctrl = {} /\ m.out = retx.out

\* An AM DRB with status reports configured and COUNTs 0, 1 buffered: the control PDU,
\* then COUNT 0 and COUNT 1 again
C35_Witness ==
    /\ is_drb(tx_cfg) /\ is_am(tx_cfg) /\ tx_cfg.status_report_required
    /\ discard_timer_has_value /\ WindowCounts(tx_window) = {0, 1}
    /\ data_recovery(TxNow, NoEntry).out = <<EvCtrlPdu, EvNewPdu(0, TRUE), EvNewPdu(1, TRUE)>>

(***************************************************************************)
(* Re-establishment of the receiver: the SDUs still buffered.              *)
(***************************************************************************)
\* C36: on re-establishment of the receiver of a UM DRB every SDU still buffered in the
\* window is delivered to the upper layer, once, in ascending COUNT order, before the
\* state is reset; on an SRB the buffered SDUs are discarded and nothing is delivered.
C36_ReestablishDelivery ==
    LET r == rx_reestablish(RxNow)
        d == DeliveredSeq(r.out)
    IN  /\ is_um(rx_cfg) =>
               /\ {d[i].n : i \in 1..Len(d)} = WindowCounts(rx_window)
               /\ \A i, j \in 1..Len(d) : i < j => d[i].n < d[j].n
               /\ r.win = EmptyWindow
        /\ is_srb(rx_cfg) => d = <<>> /\ r.win = EmptyWindow

\* A UM receiver holding COUNTs 1 and 3 above the gaps at 0 and 2
C36_Witness ==
    /\ is_um(rx_cfg)
    /\ rx_st.rx_deliv = 0 /\ rx_st.rx_next = 4
    /\ WindowCounts(rx_window) = {1, 3}
    /\ rx_reestablish(RxNow).out = <<EvNewSdu(1), EvNewSdu(3)>>
    /\ rx_reestablish(RxNow).rx_next = 0

(***************************************************************************)
(* Invariants of the receiver between two events.                          *)
(***************************************************************************)
\* C37: with a finite non-zero t_reordering, in every state between two events
\* t-Reordering is running if and only if rx_deliv < rx_next, and whenever it is running
\* rx_deliv < rx_reord <= rx_next, so that the loop "while rx_deliv != rx_reord" of the
\* expiry handler stops after rx_reord - rx_deliv steps without wrapping the counter.
C37_TimerInvariant ==
    rx_cfg.t_reordering = "finite" =>
        /\ rx_timer_running <=> rx_st.rx_deliv < rx_st.rx_next
        /\ rx_timer_running =>
               /\ rx_st.rx_deliv < rx_st.rx_reord /\ rx_st.rx_reord <= rx_st.rx_next
               /\ DeliverBelowRxReord(RxNow).rx_deliv = rx_st.rx_reord
               /\ handle_t_reordering_expire([RxNow EXCEPT !.timer_running = FALSE]).rx_deliv
                      >= rx_st.rx_reord

\* COUNT 0 delivered, COUNT 2 started the timer with rx_reord = 3, COUNT 3 arrived later
C37_Witness ==
    /\ rx_cfg.t_reordering = "finite" /\ rx_timer_running
    /\ rx_st = [rx_next |-> 4, rx_deliv |-> 1, rx_reord |-> 3]
    /\ WindowCounts(rx_window) = {2, 3}
    /\ handle_t_reordering_expire([RxNow EXCEPT !.timer_running = FALSE]).rx_deliv = 4

\* C38 as stated: in every state between two events the RX window holds no entry at
\* COUNT rx_deliv, and whenever rx_deliv < rx_next it holds an entry at rx_next - 1.
C38_Original ==
    /\ rx_st.rx_deliv \notin WindowCounts(rx_window)
    /\ rx_st.rx_deliv < rx_st.rx_next => (rx_st.rx_next - 1) \in WindowCounts(rx_window)


(***************************************************************************)
(* Liveness of the receiver.                                               *)
(***************************************************************************)
\* t-Reordering fires once started: reordering_callback runs when the timer has expired
FairRx == WF_vars(ReorderingTimerExpire)
SpecRxWrapUmLive == InitRxWrapUm /\ [][NextRx]_vars /\ FairRx

\* The COUNTs an operation that leaves the receiver as r takes out of the window
RemovedCounts(r) == WindowCounts(rx_window) \ WindowCounts(r.win)

\* No data PDU and no expiry takes an SDU out of the window without delivering it, and
\* the re-establishment of a DRB delivers what it takes out
RemovedAreDelivered ==
    /\ \A r \in RxDataPduResults \cup RxExpiryResults :
           RemovedCounts(r) \subseteq DeliveredCounts(r.out)
    /\ ~is_srb(rx_cfg) =>
           RemovedCounts(rx_reestablish(RxNow)) \subseteq DeliveredCounts(rx_reestablish(RxNow).out)

\* With t_reordering infinite a data PDU delivers buffered SDUs only when it fills the gap
\* at rx_deliv
InfiniteDeliversAtGapFill ==
    rx_cfg.t_reordering = "infinity" =>
        \A sn \in 0..(SnCard - 1) :
            LET r == handle_data_pdu(RxNow, sn, "ok")
            IN  DeliveredCounts(r.out) # {} => rcvd_count_of(RxNow, sn) = rx_st.rx_deliv

\* With a finite t_reordering every buffered SDU leaves the window
BufferedLeaves ==
    \A c \in Counts :
        (rx_cfg.t_reordering = "finite" /\ c \in WindowCounts(rx_window))
            ~> (c \notin WindowCounts(rx_window))

\* C39: with a finite t_reordering and a timer that fires once started, every SDU accepted
\* into the RX window eventually leaves it, and it leaves it only by being delivered to the
\* upper layer or by the re-establishment of an SRB; with t_reordering infinite a data PDU
\* delivers buffered SDUs only when it fills the gap at rx_deliv
C39_Liveness ==
    /\ [](RemovedAreDelivered /\ InfiniteDeliversAtGapFill)
    /\ BufferedLeaves


(***************************************************************************)
(* Resolution of delivery notifications against the TX window.              *)
(***************************************************************************)
\* The window entries a delivery notification for SN(c) leaves are exactly the present
\* entries outside [tx_next_ack, c]
RetiresExactly(m, c) ==
    WindowCounts(m.win) = {x \in WindowCounts(tx_window) : x < tx_st.tx_next_ack \/ x > c}

\* On an AM bearer with a discard timer a delivery notification carrying SN(c) of a held
\* COUNT c resolves to c and retires exactly the entries in [tx_next_ack, c]
C40_ResolvesToHeld ==
    (is_am(tx_cfg) /\ discard_timer_has_value) =>
        \A c \in WindowCounts(tx_window) :
            /\ notification_count_estimation(TxNow, SN(c)) = c
            /\ RetiresExactly(handle_delivery_notification(TxNow, SN(c)), c)

\* tx_next - tx_next_ack never exceeds window_size
C40_AckDistance ==
    (is_am(tx_cfg) /\ discard_timer_has_value) =>
        U32(tx_st.tx_next - tx_st.tx_next_ack) <= window_size

\* C40: on an AM bearer with a discard timer, for every COUNT c held in the TX window a
\* delivery notification carrying SN(c) resolves, relative to tx_next_ack, to c itself and
\* retires exactly the entries in [tx_next_ack, c]; tx_next - tx_next_ack never exceeds
\* window_size
C40_Original == C40_ResolvesToHeld /\ C40_AckDistance

====
